---- MODULE Spec2Model ----
(***************************************************************************)
(* Vignet: an authenticated HTTP API that patches YAML files of a Git      *)
(* repository.  One request runs  AuthenticateRequest -> Handler.patch     *)
(* (decode, validate, repository lookup, AllowPatch) ->                    *)
(* gitClonePatchCommitPush (clone, apply + stage each command, commit,     *)
(* push).  The model follows the handler, the default Rego policy, the     *)
(* GitLab authentication provider and the YAML patcher of the sources.     *)
(***************************************************************************)
EXTENDS Integers, Sequences, FiniteSets, TLC

VARIABLES
    pc,         \* pc[r]: position of request r in middleware / handler / pipeline
    req,        \* req[r]: the inbound HTTP request (header, repo name, body)
    authCtx,    \* authCtx[r]: AuthCtx stored on the request context by the middleware
    resp,       \* resp[r]: sequence of responses written for r (status, cause, error)
    evals,      \* evals[r]: outcomes of the policy evaluations (patchAllowQuery.Eval) run for r
    authz,      \* authz[r]: the value AllowPatch returned to Handler.patch
    clones,     \* clones[r]: number of git.Clone calls performed for r
    base,       \* base[r]: index of the remote commit that r cloned (0: none)
    fs,         \* fs[r]: the request's in-memory working tree (memfs)
    staged,     \* staged[r]: paths added to the index by w.Add
    applied,    \* applied[r]: number of commands applied (and staged) so far
    head,       \* head[r]: the local commit created by w.Commit (NoCommit: none)
    cancelled,  \* cancelled[r]: the position at which r.Context() was cancelled ("": not cancelled)
    pushes,     \* pushes[r]: number of r.Push calls performed for r
    remote,     \* the upstream repository: sequence of commits, last is the tip
    call,       \* the arguments of the SetField calls under study (document, path, value, createKeys)
    patcher,    \* the yaml.Patcher: its node
    returned,   \* per Patcher.SetField call: the error and the document Patcher.Encode writes
    worktree,   \* the file of the working tree that applyPatchCommand patches
    outcomes    \* per applyPatchCommand call: the error and the file afterwards

\* The variables of the server and those of the patcher under study.
svars == <<pc, req, authCtx, resp, evals, authz, clones, base, fs, staged, applied, head, cancelled,
           pushes, remote>>
pvars == <<call, patcher, returned, worktree, outcomes>>
vars == <<svars, pvars>>

----------------------------------------------------------------------------
(* Bounds *)

\* Longest command list of a request body.
MaxCommands == 2
\* Number of request slots (concurrent handler goroutines).
NumReq == 2

Reqs == 1..NumReq

----------------------------------------------------------------------------
(* HTTP status codes used by the handler *)

StatusOK == 200
StatusBadRequest == 400
StatusUnauthorized == 401
StatusForbidden == 403
StatusNotFound == 404
StatusUnprocessableEntity == 422
StatusInternalServerError == 500

----------------------------------------------------------------------------
(* File paths.  A path is its directory components, the file's base name  *)
(* and its extension, i.e. the string dir[1]/.../dir[n]/file.ext; the     *)
(* empty string is EmptyPath.                                             *)

Path(dir, file, ext) == [dir |-> dir, file |-> file, ext |-> ext]

EmptyPath == Path(<<>>, "", "")
PathRelease == Path(<<"projects", "g", "a">>, "release", "yml")
PathNew == Path(<<"projects", "g", "a">>, "new", "yaml")
PathReadme == Path(<<"g", "a">>, "release", "yml")
PathNotes == Path(<<"projects", "g", "a">>, "notes", "txt")
PathOther == Path(<<"other">>, "notes", "txt")

\* The files a working tree can hold.
FilePaths == {PathRelease, PathNew, PathReadme, PathNotes, PathOther}

\* strings.HasSuffix(path, ".yaml") || strings.HasSuffix(path, ".yml")
HasYamlSuffix(p) == p.ext \in {"yml", "yaml"}

IsPrefix(s, t) == Len(s) <= Len(t) /\ SubSeq(t, 1, Len(s)) = s

----------------------------------------------------------------------------
(* YAML document trees (goyaml.Node).  Every node is a record of the same *)
(* shape; a mapping holds its keys and the value nodes in document order. *)

Node(kind, tag, value, keys, content, comment) ==
    [kind |-> kind, tag |-> tag, value |-> value, keys |-> keys,
     content |-> content, comment |-> comment, style |-> ""]

\* A scalar in a quoting style ("" is plain).
Styled(node, style) == [node EXCEPT !.style = style]

ScalarNode(tag, value, comment) == Node("scalar", tag, value, <<>>, <<>>, comment)
MappingNode(keys, content, comment) == Node("mapping", "!!map", "", keys, content, comment)
SequenceNode(content, comment) == Node("sequence", "!!seq", "", <<>>, content, comment)
\* &goyaml.Node{Kind: goyaml.MappingNode} and &goyaml.Node{Kind: goyaml.ScalarNode}
NewMappingNode == Node("mapping", "", "", <<>>, <<>>, "")
NewScalarNode == Node("scalar", "", "", <<>>, <<>>, "")

\* foo: bar
DocFooBar == MappingNode(<<"foo">>, <<ScalarNode("!!str", "bar", "")>>, "")
\* the placeholder of contents that hold no document
NoDoc == ScalarNode("", "", "")

(* File contents: a YAML text (by the document it parses to), a text that *)
(* is no YAML, or no file.                                                *)
Content(kind, doc) == [kind |-> kind, doc |-> doc]
YamlText(doc) == Content("yaml", doc)
InvalidText == Content("invalid", NoDoc)
NoFile == Content("absent", NoDoc)

----------------------------------------------------------------------------
(* The wire shape of a patch request (JSON body) *)

\* Field path segments: a key, optionally followed by [n] or [?(@.k == 'v')].
Seg(key, sel, index, fkey, fval) ==
    [key |-> key, sel |-> sel, index |-> index, fkey |-> fkey, fval |-> fval]
Key(k) == Seg(k, "none", 0, "", "")
Index(k, i) == Seg(k, "index", i, "", "")
Filter(k, fk, fv) == Seg(k, "filter", 0, fk, fv)

\* JSON values of setField.value (Value any): a string, or an object with one
\* member.
StringValue(v) == [t |-> "!!str", v |-> v]
ObjectValue(key, v) == [t |-> "!!map", v |-> v, key |-> key]

\* objSignature; set = FALSE is the nil pointer (JSON key absent)
Signature(name, email) == [set |-> TRUE, name |-> name, email |-> email]
NoSignature == [set |-> FALSE, name |-> "", email |-> ""]

\* patchRequestCommit
Commit(message, committer, author) ==
    [message |-> message, committer |-> committer, author |-> author]

\* setFieldPatchRequestCommand / createFilePatchRequestCommand; set = FALSE is nil
SetField(field, value, create) ==
    [set |-> TRUE, field |-> field, value |-> value, create |-> create]
NoSetField == [set |-> FALSE, field |-> <<>>, value |-> StringValue(""), create |-> FALSE]
CreateFile(content) == [set |-> TRUE, content |-> content]
NoCreateFile == [set |-> FALSE, content |-> NoFile]

\* One element of "commands" as sent: deleteFile records whether the JSON
\* object carries a "deleteFile" key, which patchRequestCommand does not declare.
Command(path, setField, createFile, deleteFile) ==
    [path |-> path, setField |-> setField, createFile |-> createFile,
     deleteFile |-> deleteFile]

Body(malformed, commit, commands) ==
    [malformed |-> malformed, commit |-> commit, commands |-> commands]

\* Authorization header: scheme "none" is the absent header.
Header(scheme, token) == [scheme |-> scheme, token |-> token]

Request(header, repo, body) == [header |-> header, repo |-> repo, body |-> body]

----------------------------------------------------------------------------
(* Errors.  NoErr is nil; a clientError carries its status, every other   *)
(* error is internal.                                                      *)

Err(client, status, msg) == [isErr |-> TRUE, client |-> client, status |-> status, msg |-> msg]
NoErr == [isErr |-> FALSE, client |-> FALSE, status |-> 0, msg |-> ""]
ClientError(msg, status) == Err(TRUE, status, msg)
InternalError(msg) == Err(FALSE, 0, msg)

----------------------------------------------------------------------------
(* json.Decoder with DisallowUnknownFields into patchRequest *)

DecodeFails(body) ==
    \/ body.malformed
    \/ \E i \in 1..Len(body.commands) : body.commands[i].deleteFile

(* objSignature.Validate *)
SignatureValidate(s) ==
    IF s.name = "" THEN "'name' must not be empty"
    ELSE IF s.email = "" THEN "'email' must not be empty"
    ELSE ""

(* patchRequestCommit.Validate *)
CommitValidate(c) ==
    IF c.committer.set /\ SignatureValidate(c.committer) # "" THEN "invalid 'committer'"
    ELSE IF c.author.set /\ SignatureValidate(c.author) # "" THEN "invalid 'author'"
    ELSE ""

(* yamlPathPattern: ^([\w-]+\.)*[\w-]+$ *)
YamlPathPatternMatches(field) ==
    /\ Len(field) >= 1
    /\ \A i \in 1..Len(field) : field[i].sel = "none" /\ field[i].key # ""

(* setFieldPatchRequestCommand.Validate *)
SetFieldValidate(c) ==
    IF Len(c.field) = 0 THEN "field must not be empty"
    ELSE IF ~YamlPathPatternMatches(c.field)
        THEN "field must be a valid path of dot separated YAML keys"
    ELSE ""

(* createFilePatchRequestCommand.Validate *)
CreateFileValidate(c) == ""

\* commandsSet of patchRequestCommand.Validate
CommandsSet(c) ==
    (IF c.setField.set THEN <<"'setField'">> ELSE <<>>)
        \o (IF c.createFile.set THEN <<"'createFile'">> ELSE <<>>)

(* patchRequestCommand.Validate *)
CommandValidate(c) ==
    IF c.path = EmptyPath THEN "'path' must be set"
    ELSE IF Len(CommandsSet(c)) = 0 THEN "no command is set"
    ELSE IF Len(CommandsSet(c)) > 1 THEN "only one command can be set"
    ELSE IF c.setField.set /\ SetFieldValidate(c.setField) # "" THEN "invalid 'setField' command"
    ELSE IF c.createFile.set /\ CreateFileValidate(c.createFile) # ""
        THEN "invalid 'createFile' command"
    ELSE ""

\* Validate without the validation of the commit metadata.
RequestValidateWithoutCommit(body) ==
    IF Len(body.commands) = 0 THEN "no 'commands' given"
    ELSE IF \E i \in 1..Len(body.commands) : CommandValidate(body.commands[i]) # ""
        THEN "'commands[i]' is invalid"
    ELSE ""

(* patchRequest.Validate *)
RequestValidate(body) ==
    IF CommitValidate(body.commit) # "" THEN "invalid 'commit'"
    ELSE IF Len(body.commands) = 0 THEN "no 'commands' given"
    ELSE IF \E i \in 1..Len(body.commands) : CommandValidate(body.commands[i]) # ""
        THEN "'commands[i]' is invalid"
    ELSE ""

----------------------------------------------------------------------------
(* Authentication: GitLab job token provider *)

\* GitLabClaims (the fields the policy and the commit read)
Claims(project, login, email) ==
    [project_path |-> project, user_login |-> login, user_email |-> email]
NoClaims == Claims(<<>>, "", "")

\* AuthCtx: error = "" is a nil Error; hasClaims = FALSE is a nil GitLabClaims
AuthCtx(error, hasClaims, claims) ==
    [error |-> error, hasClaims |-> hasClaims, claims |-> claims]
NoAuthCtx == AuthCtx("", FALSE, NoClaims)

\* The job tokens whose signature the JWKS verifies.
ValidTokens == {"tokA"}
\* jwt.ParseWithClaims: the claims of a token the JWKS verifies
TokenClaims(token) == Claims(<<"g", "a">>, "j.doe", "j.doe@example.com")

\* AuthCtxFromRequest without the check of the Bearer scheme.
AuthCtxFromRequestAnyScheme(header) ==
    IF header.scheme = "none"
        THEN AuthCtx("missing Authorization header", FALSE, NoClaims)
    ELSE IF header.token \notin ValidTokens
        THEN AuthCtx("parsing JWT", FALSE, NoClaims)
    ELSE AuthCtx("", TRUE, TokenClaims(header.token))

(* GitLabAuthenticationProvider.AuthCtxFromRequest *)
AuthCtxFromRequest(header) ==
    IF header.scheme = "none"
        THEN AuthCtx("missing Authorization header", FALSE, NoClaims)
    ELSE IF header.scheme # "Bearer"
        THEN AuthCtx("invalid Bearer scheme in Authorization header", FALSE, NoClaims)
    ELSE IF header.token \notin ValidTokens
        THEN AuthCtx("parsing JWT", FALSE, NoClaims)
    ELSE AuthCtx("", TRUE, TokenClaims(header.token))

----------------------------------------------------------------------------
(* Authorization: the default policy, package vignet.request.patch *)

\* patchInput built from the first command of the request alone.
PatchInputFirstCommand(repo, patchRequest, ctx) ==
    [repo |-> repo,
     patchRequest |-> [patchRequest EXCEPT !.commands = SubSeq(@, 1, 1)],
     authCtx |-> ctx]

\* patchInput
PatchInput(repo, patchRequest, ctx) ==
    [repo |-> repo, patchRequest |-> patchRequest, authCtx |-> ctx]

\* sprintf("projects/%s/", [gitLabProjectPath]), as path components
ProjectPrefix(input) == <<"projects">> \o input.authCtx.claims.project_path

\* startswith(cmd.path, sprintf("projects/%s/", [gitLabProjectPath]))
StartsWithProjectPrefix(input, path) == IsPrefix(ProjectPrefix(input), path.dir)

\* glob.match("**/*.{yml,yaml}", ["/"], cmd.path)
GlobMatchYaml(path) == Len(path.dir) >= 1 /\ path.ext \in {"yml", "yaml"}

PolicyCommands(input) ==
    {input.patchRequest.commands[i] : i \in 1..Len(input.patchRequest.commands)}

\* commandPathNotPrefixOfGitLabProjectPath contains cmd if ...
CommandPathNotPrefixOfGitLabProjectPath(input) ==
    {cmd \in PolicyCommands(input) : ~StartsWithProjectPrefix(input, cmd.path)}

\* commandPathIsNotYaml contains cmd if ...
CommandPathIsNotYaml(input) ==
    {cmd \in PolicyCommands(input) : ~GlobMatchYaml(cmd.path)}

\* The two violation messages, by the check that produced them and the path.
Violation(check, path) == [check |-> check, path |-> path]

\* The violations with the second rule evaluated only when the first rule
\* reports nothing.
ViolationsFirstRuleOnly(input) ==
    IF CommandPathNotPrefixOfGitLabProjectPath(input) # {}
        THEN {Violation("not a prefix of GitLab project path", cmd.path) :
                cmd \in CommandPathNotPrefixOfGitLabProjectPath(input)}
        ELSE {Violation("not a YAML file", cmd.path) : cmd \in CommandPathIsNotYaml(input)}

\* violations contains msg if ...  (both rules)
Violations(input) ==
    {Violation("not a prefix of GitLab project path", cmd.path) :
        cmd \in CommandPathNotPrefixOfGitLabProjectPath(input)}
    \cup {Violation("not a YAML file", cmd.path) : cmd \in CommandPathIsNotYaml(input)}

\* Results of RegoAuthorizer.AllowPatch: nil, authorizerViolationsError, or an
\* evaluation error.
NoDecision == [kind |-> "none", violations |-> {}]
Allowed == [kind |-> "allow", violations |-> {}]
ViolationsError(v) == [kind |-> "violations", violations |-> v]
EvalError == [kind |-> "error", violations |-> {}]

\* AllowPatch that treats an evaluation error as "no result".
AllowPatchFailOpen(ctx, repo, patchRequest, evalFails) ==
    LET results == Violations(PatchInput(repo, patchRequest, ctx))
    IN  IF evalFails \/ Cardinality(results) = 0 THEN Allowed
        ELSE ViolationsError(results)

(* RegoAuthorizer.AllowPatch; evalFails: patchAllowQuery.Eval returned an error *)
AllowPatch(ctx, repo, patchRequest, evalFails) ==
    LET results == Violations(PatchInput(repo, patchRequest, ctx))
    IN  IF evalFails THEN EvalError
        ELSE IF Cardinality(results) = 0 THEN Allowed
        ELSE ViolationsError(results)

----------------------------------------------------------------------------
(* The YAML patcher.  A position is the sequence of child indexes that    *)
(* leads from the root node to a node.                                    *)

RECURSIVE GetAt(_, _)
GetAt(node, pos) ==
    IF pos = <<>> THEN node ELSE GetAt(node.content[Head(pos)], Tail(pos))

RECURSIVE ReplaceAt(_, _, _)
ReplaceAt(node, pos, new) ==
    IF pos = <<>> THEN new
    ELSE [node EXCEPT !.content[Head(pos)] = ReplaceAt(node.content[Head(pos)], Tail(pos), new)]

\* The filter with the comparison negated.
FilterMatchesNegated(elem, seg) ==
    /\ elem.kind = "mapping"
    /\ \E k \in 1..Len(elem.keys) :
        /\ elem.keys[k] = seg.fkey
        /\ elem.content[k].kind = "scalar"
        /\ elem.content[k].value # seg.fval

\* The elements of a sequence node selected by [n] or [?(@.fkey == 'fval')].
FilterMatches(elem, seg) ==
    /\ elem.kind = "mapping"
    /\ \E k \in 1..Len(elem.keys) :
        /\ elem.keys[k] = seg.fkey
        /\ elem.content[k].kind = "scalar"
        /\ elem.content[k].value = seg.fval

Selected(child, seg) ==
    IF child.kind # "sequence" THEN {}
    ELSE IF seg.sel = "index" THEN {j \in 1..Len(child.content) : j = seg.index + 1}
    ELSE {j \in 1..Len(child.content) : FilterMatches(child.content[j], seg)}

\* yamlpath Path.Find: the positions of the nodes that the path matches.
RECURSIVE Find(_, _)
Find(node, path) ==
    IF path = <<>> THEN {<<>>}
    ELSE IF node.kind # "mapping" THEN {}
    ELSE LET seg == Head(path)
             hits == {i \in 1..Len(node.keys) : node.keys[i] = seg.key}
         IN  UNION {
               IF seg.sel = "none"
                 THEN {<<i>> \o q : q \in Find(node.content[i], Tail(path))}
                 ELSE UNION {{<<i, j>> \o q : q \in Find(node.content[i].content[j], Tail(path))} :
                                j \in Selected(node.content[i], seg)}
               : i \in hits}

\* strings.Split(path, "."): a segment with brackets is the key text with
\* its brackets, which is no key of any document of the model.
BracketedPart == "key[...]"
PathParts(path) ==
    [i \in 1..Len(path) |-> IF path[i].sel = "none" THEN path[i].key ELSE BracketedPart]

\* Results of recurseNodeByPath: the error, the tree as the call left it and
\* the position of the value node in it.
Found(node, pos) == [err |-> "", node |-> node, pos |-> pos]
Failed(err, node) == [err |-> err, node |-> node, pos |-> <<>>]

FirstKey(node, key) ==
    LET hits == {i \in 1..Len(node.keys) : node.keys[i] = key}
    IN  IF hits = {} THEN 0 ELSE CHOOSE i \in hits : \A j \in hits : i <= j

(* recurseNodeByPath below the document node: handleScalarNode and        *)
(* handleMappingNode                                                      *)
RECURSIVE RecurseNodeByPath(_, _, _)
RecurseNodeByPath(node, parts, createKeys) ==
    IF parts = <<>> THEN
        IF node.kind # "scalar" THEN Failed("expected scalar node", node)
        ELSE Found(node, <<>>)
    ELSE IF node.kind # "mapping" THEN Failed("unexpected node of kind", node)
    ELSE LET i == FirstKey(node, Head(parts))
             n == Len(node.keys) + 1
         IN  IF i # 0 THEN
                 LET r == RecurseNodeByPath(node.content[i], Tail(parts), createKeys)
                 IN  [err |-> r.err,
                      node |-> [node EXCEPT !.content[i] = r.node],
                      pos |-> IF r.err = "" THEN <<i>> \o r.pos ELSE <<>>]
             ELSE IF ~createKeys THEN Failed("key not found", node)
             ELSE IF Len(parts) > 1 THEN
                 LET r == RecurseNodeByPath(NewMappingNode, Tail(parts), createKeys)
                 IN  [err |-> r.err,
                      node |-> [node EXCEPT !.keys = Append(@, Head(parts)),
                                            !.content = Append(@, r.node)],
                      pos |-> IF r.err = "" THEN <<n>> \o r.pos ELSE <<>>]
             ELSE Found([node EXCEPT !.keys = Append(@, Head(parts)),
                                     !.content = Append(@, NewScalarNode)], <<n>>)

\* handleDocumentNode without the special case of the empty document.
HandleDocumentNodeWithoutEmptyCase(root, parts, createKeys) ==
    RecurseNodeByPath(root, parts, createKeys)

(* handleDocumentNode: an empty document becomes an empty mapping when    *)
(* keys are to be created                                                 *)
HandleDocumentNode(root, parts, createKeys) ==
    IF createKeys /\ root.kind = "scalar" /\ root.tag = "!!null"
        THEN RecurseNodeByPath(NewMappingNode, parts, createKeys)
        ELSE RecurseNodeByPath(root, parts, createKeys)

\* The strings that a plain scalar would resolve to another type: the encoder
\* quotes them.
ResolvesToOtherType(v) == v \in {"3", "42", "true", "null"}

\* goyaml Node.Encode(value): *n = *doc.Content[0], the node becomes the
\* encoding of the value, in the style the encoder chooses and without comment.
EncodeValue(value) ==
    IF value.t = "!!map"
        THEN MappingNode(<<value.key>>, <<ScalarNode("!!str", value.v, "")>>, "")
        ELSE Styled(ScalarNode(value.t, value.v, ""),
                    IF value.t = "!!str" /\ ResolvesToOtherType(value.v) THEN "double" ELSE "")

\* The nested mappings key1: key2: ... : leaf.
RECURSIVE Chain(_, _)
Chain(parts, leaf) ==
    IF parts = <<>> THEN leaf
    ELSE MappingNode(<<Head(parts)>>, <<Chain(Tail(parts), leaf)>>, "")

\* SetField that, when keys are to be created, appends the path to the root
\* mapping without looking for the keys.
PatcherSetFieldAlwaysAppending(root, path, value, createKeys) ==
    LET matchedNodes == Find(root, path)
        q == CHOOSE q \in matchedNodes : TRUE
    IN  IF createKeys /\ root.kind = "mapping" THEN
            [err |-> "",
             root |-> [root EXCEPT !.keys = Append(@, Head(PathParts(path))),
                                   !.content = Append(@, Chain(Tail(PathParts(path)),
                                                                EncodeValue(value)))]]
        ELSE IF Cardinality(matchedNodes) # 1 THEN [err |-> "no nodes matched path", root |-> root]
        ELSE IF GetAt(root, q).kind # "scalar" THEN [err |-> "expected scalar node", root |-> root]
        ELSE [err |-> "", root |-> ReplaceAt(root, q, EncodeValue(value))]

\* SetField that creates missing keys whatever createKeys says.
PatcherSetFieldCreatingAlways(root, path, value, createKeys) ==
    LET matchedNodes == Find(root, path)
        created == HandleDocumentNode(root, PathParts(path), TRUE)
        target == IF matchedNodes = {} THEN created
                  ELSE Found(root, CHOOSE q \in matchedNodes : TRUE)
    IN  IF Cardinality(matchedNodes) > 1 THEN [err |-> "multiple nodes matched path", root |-> root]
        ELSE IF target.err # "" THEN [err |-> "creating path", root |-> target.node]
        ELSE IF GetAt(target.node, target.pos).kind # "scalar"
            THEN [err |-> "expected scalar node", root |-> target.node]
        ELSE [err |-> "", root |-> ReplaceAt(target.node, target.pos, EncodeValue(value))]

\* SetField without the check of the kind of the value node.
PatcherSetFieldAnyKind(root, path, value, createKeys) ==
    LET matchedNodes == Find(root, path)
        created == HandleDocumentNode(root, PathParts(path), createKeys)
    IN  IF Cardinality(matchedNodes) = 0 THEN
            IF createKeys THEN
                IF created.err # "" THEN [err |-> "creating path", root |-> created.node]
                ELSE [err |-> "", root |-> ReplaceAt(created.node, created.pos, EncodeValue(value))]
            ELSE [err |-> "no nodes matched path", root |-> root]
        ELSE IF Cardinality(matchedNodes) > 1
            THEN [err |-> "multiple nodes matched path", root |-> root]
        ELSE [err |-> "", root |-> ReplaceAt(root, CHOOSE q \in matchedNodes : TRUE,
                                             EncodeValue(value))]

RECURSIVE ReplaceAll(_, _, _)
ReplaceAll(node, positions, new) ==
    IF positions = {} THEN node
    ELSE LET q == CHOOSE q \in positions : TRUE
         IN  ReplaceAll(ReplaceAt(node, q, new), positions \ {q}, new)

\* SetField that encodes the value into every matched node.
PatcherSetFieldEveryMatch(root, path, value, createKeys) ==
    LET matchedNodes == Find(root, path)
        created == HandleDocumentNode(root, PathParts(path), createKeys)
    IN  IF Cardinality(matchedNodes) = 0 THEN
            IF createKeys THEN
                IF created.err # "" THEN [err |-> "creating path", root |-> created.node]
                ELSE IF GetAt(created.node, created.pos).kind # "scalar"
                    THEN [err |-> "expected scalar node", root |-> created.node]
                ELSE [err |-> "", root |-> ReplaceAt(created.node, created.pos, EncodeValue(value))]
            ELSE [err |-> "no nodes matched path", root |-> root]
        ELSE IF \E q \in matchedNodes : GetAt(root, q).kind # "scalar"
            THEN [err |-> "expected scalar node", root |-> root]
        ELSE [err |-> "", root |-> ReplaceAll(root, matchedNodes, EncodeValue(value))]

\* SetField that appends the first key of the path to the root mapping before
\* it walks the path, and leaves it there when the walk fails.
PatcherSetFieldLeavingKeys(root, path, value, createKeys) ==
    LET matchedNodes == Find(root, path)
        created == HandleDocumentNode(root, PathParts(path), createKeys)
        fail(e, n) == [err |-> e, root |-> n]
        begun == IF root.kind = "mapping"
                   THEN [root EXCEPT !.keys = Append(@, PathParts(path)[1]),
                                     !.content = Append(@, NewMappingNode)]
                   ELSE root
        encodeAt(n, pos) ==
            IF GetAt(n, pos).kind # "scalar" THEN fail("expected scalar node", n)
            ELSE [err |-> "", root |-> ReplaceAt(n, pos, EncodeValue(value))]
    IN  IF Cardinality(matchedNodes) = 0 THEN
            IF createKeys THEN
                IF created.err # "" THEN fail("creating path", begun)
                ELSE encodeAt(created.node, created.pos)
            ELSE fail("no nodes matched path", root)
        ELSE IF Cardinality(matchedNodes) > 1 THEN fail("multiple nodes matched path", root)
        ELSE encodeAt(root, CHOOSE q \in matchedNodes : TRUE)

(* Patcher.SetField: the error ("" for nil) and the document afterwards *)
PatcherSetField(root, path, value, createKeys) ==
    LET matchedNodes == Find(root, path)
        created == HandleDocumentNode(root, PathParts(path), createKeys)
        fail(e, n) == [err |-> e, root |-> n]
        encodeAt(n, pos) ==
            IF GetAt(n, pos).kind # "scalar" THEN fail("expected scalar node", n)
            ELSE [err |-> "", root |-> ReplaceAt(n, pos, EncodeValue(value))]
    IN  IF Cardinality(matchedNodes) = 0 THEN
            IF createKeys THEN
                IF created.err # "" THEN fail("creating path", created.node)
                ELSE encodeAt(created.node, created.pos)
            ELSE fail("no nodes matched path", root)
        ELSE IF Cardinality(matchedNodes) > 1 THEN fail("multiple nodes matched path", root)
        ELSE encodeAt(root, CHOOSE q \in matchedNodes : TRUE)

(* Patcher.Encode, read back: the nodes that SetField created without a *)
(* tag carry the tag of their kind.                                      *)
RECURSIVE EncodeNode(_)
EncodeNode(node) ==
    [node EXCEPT !.tag = IF @ # "" THEN @
                         ELSE IF node.kind = "mapping" THEN "!!map"
                         ELSE IF node.kind = "sequence" THEN "!!seq"
                         ELSE "!!null",
                 !.content = [i \in 1..Len(node.content) |-> EncodeNode(node.content[i])]]

(* yaml.NewPatcher: decoding fails on a text that is no YAML *)
NewPatcherFails(content) == content.kind # "yaml"

----------------------------------------------------------------------------
(* Configuration (Config), as the handler is constructed with it *)

ConfigRepositories == {"my-project"}
ConfigDefaultMessage == "Automated patch by vignet"
ConfigDefaultAuthor == Signature("vignet", "bot@vignet")

----------------------------------------------------------------------------
(* Working trees and commits *)

EmptyTree == [p \in FilePaths |-> NoFile]

CommitObject(tree, message, author, committer, by) ==
    [tree |-> tree, message |-> message, author |-> author, committer |-> committer, by |-> by]
NoCommit == CommitObject(EmptyTree, "", NoSignature, NoSignature, 0)

\* The upstream repository before any request: release.yml in the project
\* directory and at the path the tests use, and a text file.
InitialTree ==
    [p \in FilePaths |->
        IF p \in {PathRelease, PathReadme} THEN YamlText(DocFooBar)
        ELSE IF p = PathNotes THEN InvalidText
        ELSE NoFile]
InitialCommit ==
    CommitObject(InitialTree, "Initial commit", Signature("vignet", "test@vignet"),
                 Signature("vignet", "test@vignet"), 0)

\* applyPatchCommand that parses the content of a create-file command and
\* refuses a content that is no YAML document.
ApplyPatchCommandValidatingContent(tree, cmd) ==
    LET result(e, t) == [err |-> e, fs |-> t]
        content == tree[cmd.path]
        patched == PatcherSetField(content.doc, cmd.setField.field, cmd.setField.value,
                                   cmd.setField.create)
    IN  IF ~HasYamlSuffix(cmd.path)
            THEN result(ClientError("unsupported file type", StatusUnprocessableEntity), tree)
        ELSE IF cmd.createFile.set
            THEN IF cmd.createFile.content.kind # "yaml"
                   THEN result(ClientError("invalid YAML", StatusUnprocessableEntity), tree)
                   ELSE result(NoErr, [tree EXCEPT ![cmd.path] = cmd.createFile.content])
        ELSE IF cmd.setField.set THEN
            IF content.kind = "absent"
                THEN result(ClientError("file does not exist", StatusUnprocessableEntity), tree)
            ELSE IF NewPatcherFails(content) THEN result(InternalError("reading YAML"), tree)
            ELSE IF patched.err # ""
                THEN result(ClientError(patched.err, StatusUnprocessableEntity), tree)
            ELSE result(NoErr, [tree EXCEPT ![cmd.path] = YamlText(EncodeNode(patched.root))])
        ELSE result(ClientError("unknown command type", StatusBadRequest), tree)

\* applyPatchCommand without the os.IsNotExist case of OpenFile: a missing file
\* is one more failure of opening the file.
ApplyPatchCommandWithoutNotExist(tree, cmd) ==
    LET result(e, t) == [err |-> e, fs |-> t]
        content == tree[cmd.path]
        patched == PatcherSetField(content.doc, cmd.setField.field, cmd.setField.value,
                                   cmd.setField.create)
    IN  IF ~HasYamlSuffix(cmd.path)
            THEN result(ClientError("unsupported file type", StatusUnprocessableEntity), tree)
        ELSE IF cmd.createFile.set
            THEN result(NoErr, [tree EXCEPT ![cmd.path] = cmd.createFile.content])
        ELSE IF cmd.setField.set THEN
            IF content.kind = "absent"
                THEN result(InternalError("opening file read-write"), tree)
            ELSE IF NewPatcherFails(content) THEN result(InternalError("reading YAML"), tree)
            ELSE IF patched.err # ""
                THEN result(ClientError(patched.err, StatusUnprocessableEntity), tree)
            ELSE result(NoErr, [tree EXCEPT ![cmd.path] = YamlText(EncodeNode(patched.root))])
        ELSE result(ClientError("unknown command type", StatusBadRequest), tree)

(* Handler.applyPatchCommand: the error and the working tree afterwards *)
ApplyPatchCommand(tree, cmd) ==
    LET result(e, t) == [err |-> e, fs |-> t]
        content == tree[cmd.path]
        patched == PatcherSetField(content.doc, cmd.setField.field, cmd.setField.value,
                                   cmd.setField.create)
    IN  IF ~HasYamlSuffix(cmd.path)
            THEN result(ClientError("unsupported file type", StatusUnprocessableEntity), tree)
        ELSE IF cmd.createFile.set
            THEN result(NoErr, [tree EXCEPT ![cmd.path] = cmd.createFile.content])
        ELSE IF cmd.setField.set THEN
            IF content.kind = "absent"
                THEN result(ClientError("file does not exist", StatusUnprocessableEntity), tree)
            ELSE IF NewPatcherFails(content) THEN result(InternalError("reading YAML"), tree)
            ELSE IF patched.err # ""
                THEN result(ClientError(patched.err, StatusUnprocessableEntity), tree)
            ELSE result(NoErr, [tree EXCEPT ![cmd.path] = YamlText(EncodeNode(patched.root))])
        ELSE result(ClientError("unknown command type", StatusBadRequest), tree)

\* The commit message without the request's override of the default.
BuildCommitMessageDefaultOnly(body) == ConfigDefaultMessage

(* Handler.buildCommitMsgAndOptions *)
BuildCommitMessage(body) ==
    IF body.commit.message # "" THEN body.commit.message ELSE ConfigDefaultMessage

BuildCommitAuthor(body) ==
    IF body.commit.author.set
        THEN Signature(body.commit.author.name, body.commit.author.email)
        ELSE Signature(ConfigDefaultAuthor.name, ConfigDefaultAuthor.email)

\* The committer taken from the configured default identity, as the author is,
\* in place of the caller's claims.
BuildCommitCommitterFromDefault(body, ctx) ==
    IF body.commit.committer.set
        THEN Signature(body.commit.committer.name, body.commit.committer.email)
        ELSE Signature(ConfigDefaultAuthor.name, ConfigDefaultAuthor.email)

\* A nil committer is filled in with the author by Worktree.Commit.
BuildCommitCommitter(body, ctx) ==
    IF body.commit.committer.set
        THEN Signature(body.commit.committer.name, body.commit.committer.email)
    ELSE IF ctx.hasClaims THEN Signature(ctx.claims.user_login, ctx.claims.user_email)
    ELSE BuildCommitAuthor(body)

\* The commit of CommitOptions{All: true} in place of w.Add: the files that the
\* cloned commit tracks are taken from the working tree, new files are not.
CommitTreeTrackedOnly(baseTree, tree, added) ==
    [p \in FilePaths |-> IF baseTree[p].kind # "absent" THEN tree[p] ELSE baseTree[p]]

\* The tree of the commit w.Commit builds: the cloned tree with the staged paths
\* as they are in the working tree.
CommitTree(baseTree, tree, added) ==
    [p \in FilePaths |-> IF p \in added THEN tree[p] ELSE baseTree[p]]

----------------------------------------------------------------------------
(* Responses *)

Response(status, cause, error, violations) ==
    [status |-> status, cause |-> cause, error |-> error, violations |-> violations]

\* respondError that writes the message of every error into the body.
RespondErrorExposingMessage(cause, err) ==
    IF err.isErr /\ err.client
        THEN Response(err.status, cause, err.msg, {})
        ELSE Response(StatusInternalServerError, cause, err.msg, {})

(* respondError: only a clientError exposes its status and its message *)
RespondError(cause, err) ==
    IF err.isErr /\ err.client
        THEN Response(err.status, cause, err.msg, {})
        ELSE Response(StatusInternalServerError, cause, "", {})

\* The 403 of Handler.patch: one "- <violation>" line per violation.
RespondViolations(v) == Response(StatusForbidden, "Authorization failed", "violations", v)

----------------------------------------------------------------------------
(* The requests the model sends *)

Headers ==
    {Header("none", ""), Header("Basic", "tokA"), Header("Bearer", "bad"),
     Header("Bearer", "tokA")}

RepoNames == {"my-project", "unknown"}

FieldFoo == <<Key("foo")>>
FieldSpecTag == <<Key("spec"), Key("tag")>>
FieldIndexed == <<Index("containers", 0), Key("image")>>

SetFoo == SetField(FieldFoo, StringValue("baz"), FALSE)

Commands ==
    \* well-formed set-field commands on every path
    {Command(p, SetFoo, NoCreateFile, FALSE) : p \in FilePaths}
    \* a set-field whose value is a JSON object
    \cup {Command(PathRelease, SetField(FieldFoo, ObjectValue("a", "b"), FALSE), NoCreateFile, FALSE)}
    \* a field that is missing, without and with create
    \cup {Command(PathRelease, SetField(FieldSpecTag, StringValue("1.2.3"), c), NoCreateFile, FALSE) :
            c \in BOOLEAN}
    \* create-file on an absent and on an existing path, YAML and no YAML
    \cup {Command(p, NoSetField, CreateFile(YamlText(DocFooBar)), FALSE) :
            p \in {PathNew, PathRelease}}
    \cup {Command(PathNew, NoSetField, CreateFile(InvalidText), FALSE)}
    \* commands that validation or decoding has to reject
    \cup {Command(EmptyPath, SetFoo, NoCreateFile, FALSE),
          Command(PathRelease, NoSetField, NoCreateFile, FALSE),
          Command(PathRelease, SetFoo, CreateFile(YamlText(DocFooBar)), FALSE),
          Command(PathRelease, NoSetField, NoCreateFile, TRUE),
          Command(PathRelease, SetField(FieldIndexed, StringValue("baz"), FALSE), NoCreateFile, FALSE),
          Command(PathRelease, SetField(<<>>, StringValue("baz"), FALSE), NoCreateFile, FALSE)}

CommandLists == UNION {[1..n -> Commands] : n \in 0..MaxCommands}

Commits ==
    {Commit("", NoSignature, NoSignature),
     Commit("Bump release", NoSignature, Signature("dev", "dev@example.com")),
     Commit("", Signature("ops", "ops@example.com"), NoSignature),
     Commit("", Signature("dev", ""), NoSignature)}

Bodies ==
    {Body(TRUE, Commit("", NoSignature, NoSignature), <<>>)}
    \cup {Body(FALSE, c, l) : c \in Commits, l \in CommandLists}

Requests == {Request(h, n, b) : h \in Headers, n \in RepoNames, b \in Bodies}

NoRequest == Request(Header("none", ""), "", Body(FALSE, Commit("", NoSignature, NoSignature), <<>>))

----------------------------------------------------------------------------
(* Initial state: no request received, the upstream holds its first commit *)

InitServer ==
    /\ pc = [r \in Reqs |-> "idle"]
    /\ req = [r \in Reqs |-> NoRequest]
    /\ authCtx = [r \in Reqs |-> NoAuthCtx]
    /\ resp = [r \in Reqs |-> <<>>]
    /\ evals = [r \in Reqs |-> <<>>]
    /\ authz = [r \in Reqs |-> NoDecision]
    /\ clones = [r \in Reqs |-> 0]
    /\ base = [r \in Reqs |-> 0]
    /\ fs = [r \in Reqs |-> EmptyTree]
    /\ staged = [r \in Reqs |-> {}]
    /\ applied = [r \in Reqs |-> 0]
    /\ head = [r \in Reqs |-> NoCommit]
    /\ cancelled = [r \in Reqs |-> ""]
    /\ pushes = [r \in Reqs |-> 0]
    /\ remote = <<InitialCommit>>

\* No SetField call is under study.
NoCall == [doc |-> NoDoc, path |-> <<>>, value |-> StringValue(""), createKeys |-> FALSE]

Init ==
    /\ InitServer
    /\ call = NoCall
    /\ patcher = [node |-> NoDoc]
    /\ returned = <<>>
    /\ worktree = NoFile
    /\ outcomes = <<>>

\* The handler writes a response and returns.
Respond(r, response) ==
    /\ resp' = [resp EXCEPT ![r] = Append(@, response)]
    /\ pc' = [pc EXCEPT ![r] = "done"]

(* The server accepts request q on the next free slot. *)
Receive(r) ==
    /\ pc[r] = "idle"
    /\ \A o \in Reqs : o < r => pc[o] # "idle"
    /\ \E q \in Requests : req' = [req EXCEPT ![r] = q]
    /\ pc' = [pc EXCEPT ![r] = "authenticate"]
    /\ UNCHANGED <<authCtx, resp, evals, authz, clones, base, fs, staged, applied, head, pushes, remote>>
    /\ UNCHANGED <<cancelled, pvars>>

(* AuthenticateRequest middleware *)
Authenticate(r) ==
    /\ pc[r] = "authenticate"
    /\ LET ctx == AuthCtxFromRequest(req[r].header)
       IN  IF ctx.error # ""
             THEN /\ Respond(r, Response(StatusUnauthorized, "Authentication failed", "", {}))
                  /\ UNCHANGED authCtx
             ELSE /\ authCtx' = [authCtx EXCEPT ![r] = ctx]
                  /\ pc' = [pc EXCEPT ![r] = "decode"]
                  /\ UNCHANGED resp
    /\ UNCHANGED <<req, evals, authz, clones, base, fs, staged, applied, head, pushes, remote>>
    /\ UNCHANGED <<cancelled, pvars>>

\* DecodeValidate with the return after the 400 of a decode error missing.
DecodeValidateWithoutReturn(r) ==
    /\ pc[r] = "decode"
    /\ IF DecodeFails(req[r].body)
         THEN /\ resp' = [resp EXCEPT ![r] =
                    Append(@, RespondError("Invalid JSON in body",
                                           ClientError("invalid JSON", StatusBadRequest)))]
              /\ pc' = [pc EXCEPT ![r] = "lookup"]
       ELSE IF RequestValidate(req[r].body) # ""
         THEN /\ resp' = [resp EXCEPT ![r] =
                    Append(@, RespondError("Validation of request failed",
                                  ClientError(RequestValidate(req[r].body), StatusBadRequest)))]
              /\ pc' = [pc EXCEPT ![r] = "done"]
       ELSE /\ pc' = [pc EXCEPT ![r] = "lookup"]
            /\ UNCHANGED resp
    /\ UNCHANGED <<req, authCtx, evals, authz, clones, base, fs, staged, applied, head, pushes, remote>>
    /\ UNCHANGED <<cancelled, pvars>>

(* Handler.patch: decode the body and validate the request *)
DecodeValidate(r) ==
    /\ pc[r] = "decode"
    /\ IF DecodeFails(req[r].body)
         THEN Respond(r, RespondError("Invalid JSON in body",
                                      ClientError("invalid JSON", StatusBadRequest)))
       ELSE IF RequestValidate(req[r].body) # ""
         THEN Respond(r, RespondError("Validation of request failed",
                                      ClientError(RequestValidate(req[r].body), StatusBadRequest)))
       ELSE /\ pc' = [pc EXCEPT ![r] = "lookup"]
            /\ UNCHANGED resp
    /\ UNCHANGED <<req, authCtx, evals, authz, clones, base, fs, staged, applied, head, pushes, remote>>
    /\ UNCHANGED <<cancelled, pvars>>

\* LookupRepo with the return after the 404 missing.
LookupRepoWithoutReturn(r) ==
    /\ pc[r] = "lookup"
    /\ pc' = [pc EXCEPT ![r] = "authorize"]
    /\ resp' = [resp EXCEPT ![r] =
            IF req[r].repo \notin ConfigRepositories
                THEN Append(@, RespondError("Unknown repository",
                                   ClientError("repository not configured", StatusNotFound)))
                ELSE @]
    /\ UNCHANGED <<req, authCtx, evals, authz, clones, base, fs, staged, applied, head, pushes, remote>>
    /\ UNCHANGED <<cancelled, pvars>>

(* Handler.patch: look the repository up in the configuration *)
LookupRepo(r) ==
    /\ pc[r] = "lookup"
    /\ IF req[r].repo \notin ConfigRepositories
         THEN Respond(r, RespondError("Unknown repository",
                                      ClientError("repository not configured", StatusNotFound)))
         ELSE /\ pc' = [pc EXCEPT ![r] = "authorize"]
              /\ UNCHANGED resp
    /\ UNCHANGED <<req, authCtx, evals, authz, clones, base, fs, staged, applied, head, pushes, remote>>
    /\ UNCHANGED <<cancelled, pvars>>

\* Authorize with the return after the 403 missing: the handler goes on to
\* gitClonePatchCommitPush.
AuthorizeWithoutReturn(r, evalFails) ==
    /\ pc[r] = "authorize"
    /\ evals' = [evals EXCEPT ![r] = Append(@, IF evalFails THEN "error" ELSE "ok")]
    /\ LET err == AllowPatch(authCtx[r], req[r].repo, req[r].body, evalFails)
       IN  /\ authz' = [authz EXCEPT ![r] = err]
           /\ IF err.kind = "error"
                THEN Respond(r, RespondError("Authorization error", NoErr))
                ELSE /\ pc' = [pc EXCEPT ![r] = "clone"]
                     /\ resp' = [resp EXCEPT ![r] =
                            IF err.kind = "violations"
                                THEN Append(@, RespondViolations(err.violations)) ELSE @]
    /\ UNCHANGED <<req, authCtx, clones, base, fs, staged, applied, head, pushes, remote>>
    /\ UNCHANGED <<cancelled, pvars>>

(* Handler.patch: the authorization gate *)
Authorize(r, evalFails) ==
    /\ pc[r] = "authorize"
    /\ evals' = [evals EXCEPT ![r] = Append(@, IF evalFails THEN "error" ELSE "ok")]
    /\ LET err == AllowPatch(authCtx[r], req[r].repo, req[r].body, evalFails)
       IN  /\ authz' = [authz EXCEPT ![r] = err]
           /\ IF err.kind = "violations"
                THEN Respond(r, RespondViolations(err.violations))
              ELSE IF err.kind = "error"
                THEN Respond(r, RespondError("Authorization error", NoErr))
              ELSE /\ pc' = [pc EXCEPT ![r] = "clone"]
                   /\ UNCHANGED resp
    /\ UNCHANGED <<req, authCtx, clones, base, fs, staged, applied, head, pushes, remote>>
    /\ UNCHANGED <<cancelled, pvars>>

\* Handler.patch answers an error of gitClonePatchCommitPush.
PatchFailed(r, err) == Respond(r, RespondError("Patch failed", err))

\* Clone into one filesystem that the handler keeps for all requests.
CloneIntoSharedFilesystem(r, ok) ==
    /\ pc[r] = "clone"
    /\ clones' = [clones EXCEPT ![r] = @ + 1]
    /\ IF ok
         THEN /\ fs' = [o \in Reqs |-> remote[Len(remote)].tree]
              /\ base' = [base EXCEPT ![r] = Len(remote)]
              /\ pc' = [pc EXCEPT ![r] = "apply"]
              /\ UNCHANGED resp
         ELSE /\ PatchFailed(r, InternalError("cloning repository"))
              /\ UNCHANGED <<fs, base>>
    /\ UNCHANGED <<req, authCtx, evals, authz, staged, applied, head, pushes, remote>>
    /\ UNCHANGED <<cancelled, pvars>>

(* gitClonePatchCommitPush: git.Clone into a fresh storer and filesystem *)
Clone(r, ok) ==
    /\ pc[r] = "clone"
    /\ clones' = [clones EXCEPT ![r] = @ + 1]
    /\ IF ok
         THEN /\ fs' = [fs EXCEPT ![r] = remote[Len(remote)].tree]
              /\ base' = [base EXCEPT ![r] = Len(remote)]
              /\ pc' = [pc EXCEPT ![r] = "apply"]
              /\ UNCHANGED resp
         ELSE /\ PatchFailed(r, InternalError("cloning repository"))
              /\ UNCHANGED <<fs, base>>
    /\ UNCHANGED <<req, authCtx, evals, authz, staged, applied, head, pushes, remote>>
    /\ UNCHANGED <<cancelled, pvars>>

\* ApplyCommand with the error of applyPatchCommand logged and not returned:
\* the loop goes on with the next command.
\* The command loop with every command applied to a fresh checkout of the
\* cloned commit.
ApplyCommandOnFreshCheckout(r) ==
    /\ pc[r] = "apply"
    /\ LET cmd == req[r].body.commands[applied[r] + 1]
           res == ApplyPatchCommand(remote[base[r]].tree, cmd)
       IN  IF res.err.isErr
             THEN /\ PatchFailed(r, res.err)
                  /\ UNCHANGED <<fs, staged, applied>>
             ELSE /\ fs' = [fs EXCEPT ![r] = [fs[r] EXCEPT ![cmd.path] = res.fs[cmd.path]]]
                  /\ staged' = [staged EXCEPT ![r] = @ \cup {cmd.path}]
                  /\ applied' = [applied EXCEPT ![r] = @ + 1]
                  /\ pc' = [pc EXCEPT ![r] =
                        IF applied[r] + 1 = Len(req[r].body.commands) THEN "commit" ELSE "apply"]
                  /\ UNCHANGED resp
    /\ UNCHANGED <<req, authCtx, evals, authz, clones, base, head, pushes, remote>>
    /\ UNCHANGED <<cancelled, pvars>>

ApplyCommandIgnoringError(r) ==
    /\ pc[r] = "apply"
    /\ LET cmd == req[r].body.commands[applied[r] + 1]
           res == ApplyPatchCommand(fs[r], cmd)
       IN  /\ fs' = [fs EXCEPT ![r] = res.fs]
           /\ staged' = [staged EXCEPT ![r] = IF res.err.isErr THEN @ ELSE @ \cup {cmd.path}]
           /\ applied' = [applied EXCEPT ![r] = @ + 1]
           /\ pc' = [pc EXCEPT ![r] =
                 IF applied[r] + 1 = Len(req[r].body.commands) THEN "commit" ELSE "apply"]
           /\ UNCHANGED resp
    /\ UNCHANGED <<req, authCtx, evals, authz, clones, base, head, pushes, remote>>
    /\ UNCHANGED <<cancelled, pvars>>

(* gitClonePatchCommitPush: one iteration of the command loop, *)
(* applyPatchCommand and w.Add                                  *)
ApplyCommand(r) ==
    /\ pc[r] = "apply"
    /\ LET cmd == req[r].body.commands[applied[r] + 1]
           res == ApplyPatchCommand(fs[r], cmd)
       IN  IF res.err.isErr
             THEN /\ PatchFailed(r, res.err)
                  /\ UNCHANGED <<fs, staged, applied>>
             ELSE /\ fs' = [fs EXCEPT ![r] = res.fs]
                  /\ staged' = [staged EXCEPT ![r] = @ \cup {cmd.path}]
                  /\ applied' = [applied EXCEPT ![r] = @ + 1]
                  /\ pc' = [pc EXCEPT ![r] =
                        IF applied[r] + 1 = Len(req[r].body.commands) THEN "commit" ELSE "apply"]
                  /\ UNCHANGED resp
    /\ UNCHANGED <<req, authCtx, evals, authz, clones, base, head, pushes, remote>>
    /\ UNCHANGED <<cancelled, pvars>>

\* The commit built inside the command loop, after any applied command.
CommitChangesInsideLoop(r, ok) ==
    /\ pc[r] = "commit" \/ (pc[r] = "apply" /\ applied[r] > 0)
    /\ IF ok
         THEN /\ head' = [head EXCEPT ![r] =
                    CommitObject(CommitTree(remote[base[r]].tree, fs[r], staged[r]),
                                 BuildCommitMessage(req[r].body),
                                 BuildCommitAuthor(req[r].body),
                                 BuildCommitCommitter(req[r].body, authCtx[r]), r)]
              /\ pc' = [pc EXCEPT ![r] = "push"]
              /\ UNCHANGED resp
         ELSE /\ PatchFailed(r, InternalError("creating commit"))
              /\ UNCHANGED head
    /\ UNCHANGED <<req, authCtx, evals, authz, clones, base, fs, staged, applied, pushes, remote>>
    /\ UNCHANGED <<cancelled, pvars>>

(* gitClonePatchCommitPush: buildCommitMsgAndOptions and w.Commit *)
CommitChanges(r, ok) ==
    /\ pc[r] = "commit"
    /\ IF ok
         THEN /\ head' = [head EXCEPT ![r] =
                    CommitObject(CommitTree(remote[base[r]].tree, fs[r], staged[r]),
                                 BuildCommitMessage(req[r].body),
                                 BuildCommitAuthor(req[r].body),
                                 BuildCommitCommitter(req[r].body, authCtx[r]), r)]
              /\ pc' = [pc EXCEPT ![r] = "push"]
              /\ UNCHANGED resp
         ELSE /\ PatchFailed(r, InternalError("creating commit"))
              /\ UNCHANGED head
    /\ UNCHANGED <<req, authCtx, evals, authz, clones, base, fs, staged, applied, pushes, remote>>
    /\ UNCHANGED <<cancelled, pvars>>

\* Push with the error of r.Push dropped: the handler answers 200 either way.
PushIgnoringResult(r, ok) ==
    /\ pc[r] = "push"
    /\ pushes' = [pushes EXCEPT ![r] = @ + 1]
    /\ remote' = IF ok /\ base[r] = Len(remote) THEN Append(remote, head[r]) ELSE remote
    /\ Respond(r, Response(StatusOK, "", "", {}))
    /\ UNCHANGED <<req, authCtx, evals, authz, clones, base, fs, staged, applied, head>>
    /\ UNCHANGED <<cancelled, pvars>>

\* Push that starts the pipeline over, with a new clone, when the upstream
\* does not take the commit.
PushRetrying(r, ok) ==
    /\ pc[r] = "push"
    /\ pushes' = [pushes EXCEPT ![r] = @ + 1]
    /\ IF ok /\ base[r] = Len(remote)
         THEN /\ remote' = Append(remote, head[r])
              /\ Respond(r, Response(StatusOK, "", "", {}))
              /\ UNCHANGED <<staged, applied, head>>
         ELSE /\ pc' = [pc EXCEPT ![r] = "clone"]
              /\ staged' = [staged EXCEPT ![r] = {}]
              /\ applied' = [applied EXCEPT ![r] = 0]
              /\ head' = [head EXCEPT ![r] = NoCommit]
              /\ UNCHANGED <<resp, remote>>
    /\ UNCHANGED <<req, authCtx, evals, authz, clones, base, fs>>
    /\ UNCHANGED <<cancelled, pvars>>

\* Push against an upstream that takes every commit, whatever it was built on.
PushWithoutFastForwardCheck(r, ok) ==
    /\ pc[r] = "push"
    /\ pushes' = [pushes EXCEPT ![r] = @ + 1]
    /\ IF ok
         THEN /\ remote' = Append(remote, head[r])
              /\ Respond(r, Response(StatusOK, "", "", {}))
         ELSE /\ PatchFailed(r, InternalError("pushing to repository"))
              /\ UNCHANGED remote
    /\ UNCHANGED <<req, authCtx, evals, authz, clones, base, fs, staged, applied, head>>
    /\ UNCHANGED <<cancelled, pvars>>

(* gitClonePatchCommitPush: r.Push, and the 200 of Handler.patch.  The    *)
(* upstream accepts the commit only on top of the commit that was cloned. *)
Push(r, ok) ==
    /\ pc[r] = "push"
    /\ pushes' = [pushes EXCEPT ![r] = @ + 1]
    /\ IF ok /\ base[r] = Len(remote)
         THEN /\ remote' = Append(remote, head[r])
              /\ Respond(r, Response(StatusOK, "", "", {}))
         ELSE /\ PatchFailed(r, InternalError("pushing to repository"))
              /\ UNCHANGED remote
    /\ UNCHANGED <<req, authCtx, evals, authz, clones, base, fs, staged, applied, head>>
    /\ UNCHANGED <<cancelled, pvars>>

\* One request at a time.
NoOtherRequest(r) == \A o \in Reqs \ {r} : pc[o] = "idle"

(* The server accepts one request and serves it. *)
ReceiveOne(r) == NoOtherRequest(r) /\ Receive(r)

Next ==
    \/ \E r \in Reqs : ReceiveOne(r)
    \/ \E r \in Reqs : Authenticate(r)
    \/ \E r \in Reqs : DecodeValidate(r)
    \/ \E r \in Reqs : LookupRepo(r)
    \/ \E r \in Reqs, evalFails \in BOOLEAN : Authorize(r, evalFails)
    \/ \E r \in Reqs, ok \in BOOLEAN : Clone(r, ok)
    \/ \E r \in Reqs : ApplyCommand(r)
    \/ \E r \in Reqs, ok \in BOOLEAN : CommitChanges(r, ok)
    \/ \E r \in Reqs, ok \in BOOLEAN : Push(r, ok)

Spec == Init /\ [][Next]_vars

(* net/http serves each request on a goroutine of its own, which runs the    *)
(* middleware and the handler to their return: a step of a request that is   *)
(* enabled is taken, the calls to the policy engine, to git.Clone and to     *)
(* Push returning with either outcome.                                       *)
Handle(r) ==
    \/ Authenticate(r)
    \/ DecodeValidate(r)
    \/ LookupRepo(r)
    \/ \E evalFails \in BOOLEAN : Authorize(r, evalFails)
    \/ \E ok \in BOOLEAN : Clone(r, ok)
    \/ ApplyCommand(r)
    \/ \E ok \in BOOLEAN : CommitChanges(r, ok)
    \/ \E ok \in BOOLEAN : Push(r, ok)

SpecLive == Init /\ [][Next]_vars /\ \A r \in Reqs : WF_vars(Handle(r))

----------------------------------------------------------------------------
(* The patcher on its own: NewPatcher on a document, then SetField calls   *)
(* with the same arguments, as the patcher test and applyPatchCommand make *)
(* them.                                                                   *)

\* Number of times the same call is made.
MaxCalls == 2

\* The empty document "---"
DocEmpty == ScalarNode("!!null", "", "")
\* foo: 'bar' # keep
\* spec:
\*   image:
\*     name: my/image
\*     tag: 0.1.0 # policy
DocImage ==
    MappingNode(<<"foo", "spec">>,
        <<Styled(ScalarNode("!!str", "bar", "# keep"), "single"),
          MappingNode(<<"image">>,
            <<MappingNode(<<"name", "tag">>,
                <<ScalarNode("!!str", "my/image", ""),
                  ScalarNode("!!str", "0.1.0", "# policy")>>, "")>>, "")>>, "")
\* spec:
\*   image:
\*     tag:
\*       name: Foo
DocNonLeaf ==
    MappingNode(<<"spec">>,
        <<MappingNode(<<"image">>,
            <<MappingNode(<<"tag">>,
                <<MappingNode(<<"name">>, <<ScalarNode("!!str", "Foo", "")>>, "")>>, "")>>, "")>>, "")
\* spec:
DocSpecNull == MappingNode(<<"spec">>, <<ScalarNode("!!null", "", "")>>, "")

EnvEntry(name, value) ==
    MappingNode(<<"name", "value">>,
        <<ScalarNode("!!str", name, ""), Styled(ScalarNode("!!str", value, ""), "single")>>, "")
\* env:
\*   - name: FOO
\*     value: '1'
\*   - name: BAR
\*     value: '2'
DocEnv == MappingNode(<<"env">>, <<SequenceNode(<<EnvEntry("FOO", "1"), EnvEntry("BAR", "2")>>, "")>>, "")
\* the same with both entries named BAR
DocEnvTwice ==
    MappingNode(<<"env">>, <<SequenceNode(<<EnvEntry("BAR", "1"), EnvEntry("BAR", "2")>>, "")>>, "")

PatcherDocs == {DocEmpty, DocFooBar, DocImage, DocNonLeaf, DocSpecNull, DocEnv, DocEnvTwice}

PatcherPaths ==
    {<<Key("foo")>>,
     <<Key("spec"), Key("image"), Key("tag")>>,
     <<Key("spec"), Key("image")>>,
     <<Key("spec"), Key("image"), Key("digest")>>,
     <<Key("env")>>,
     <<Index("env", 0), Key("value")>>,
     <<Index("env", 2), Key("value")>>,
     <<Filter("env", "name", "BAR"), Key("value")>>,
     <<Filter("env", "name", "BAZ"), Key("value")>>}

PatcherValues == {StringValue("0.2.0"), StringValue("3")}

PatcherCalls ==
    [doc : PatcherDocs, path : PatcherPaths, value : PatcherValues, createKeys : BOOLEAN]

(* NewPatcher on the document, which is also the file of the working tree *)
InitPatcher ==
    /\ InitServer
    /\ call \in PatcherCalls
    /\ patcher = [node |-> call.doc]
    /\ returned = <<>>
    /\ worktree = YamlText(call.doc)
    /\ outcomes = <<>>

(* patcher.SetField(path, value, createKeys), then what patcher.Encode writes *)
SetFieldCall ==
    /\ Len(returned) < MaxCalls
    /\ LET r == PatcherSetField(patcher.node, call.path, call.value, call.createKeys)
       IN  /\ patcher' = [node |-> r.root]
           /\ returned' = Append(returned, [err |-> r.err, doc |-> EncodeNode(r.root)])
    /\ UNCHANGED <<call, worktree, outcomes>>
    /\ UNCHANGED svars

\* The setField command of the call, on the file of the working tree.
CallCommand ==
    Command(PathRelease, SetField(call.path, call.value, call.createKeys), NoCreateFile, FALSE)

(* applyPatchCommand with the setField command on the file *)
PatchFile ==
    /\ Len(outcomes) < MaxCalls
    /\ LET r == ApplyPatchCommand([EmptyTree EXCEPT ![PathRelease] = worktree], CallCommand)
       IN  /\ worktree' = r.fs[PathRelease]
           /\ outcomes' = Append(outcomes, [err |-> r.err, file |-> r.fs[PathRelease]])
    /\ UNCHANGED <<call, patcher, returned>>
    /\ UNCHANGED svars

NextPatcher ==
    \/ SetFieldCall
    \/ PatchFile

SpecPatcher == InitPatcher /\ [][NextPatcher]_vars

----------------------------------------------------------------------------
(* The server under concurrent requests: net/http serves every request in  *)
(* a goroutine of its own, Handler holds no lock, and the context of a     *)
(* request is cancelled when its client goes away.                         *)

\* Authorized, valid requests for the configured repository.
ConcurrentCommands ==
    {Command(PathRelease, SetFoo, NoCreateFile, FALSE),
     Command(PathNew, NoSetField, CreateFile(YamlText(DocFooBar)), FALSE)}

ConcurrentRequests ==
    {Request(Header("Bearer", "tokA"), "my-project",
             Body(FALSE, Commit("", NoSignature, NoSignature), <<c>>)) : c \in ConcurrentCommands}

(* The server accepts request q while other requests are being served. *)
ReceiveConcurrent(r) ==
    /\ pc[r] = "idle"
    /\ \A o \in Reqs : o < r => pc[o] # "idle"
    /\ \E q \in ConcurrentRequests : req' = [req EXCEPT ![r] = q]
    /\ pc' = [pc EXCEPT ![r] = "authenticate"]
    /\ UNCHANGED <<authCtx, resp, evals, authz, clones, base, fs, staged, applied, head, pushes, remote>>
    /\ UNCHANGED <<cancelled, pvars>>

(* r.Context() is cancelled while gitClonePatchCommitPush runs for r: the  *)
(* pipeline takes ctx, and hands it to none of git.Clone, w.Commit, r.Push *)
Cancel(r) ==
    /\ pc[r] \in {"clone", "apply", "commit", "push"}
    /\ cancelled[r] = ""
    /\ cancelled' = [cancelled EXCEPT ![r] = pc[r]]
    /\ UNCHANGED <<pc, req, authCtx, resp, evals, authz, clones, base, fs, staged, applied, head,
                   pushes, remote>>
    /\ UNCHANGED pvars

NextConcurrent ==
    \/ \E r \in Reqs : ReceiveConcurrent(r)
    \/ \E r \in Reqs : Cancel(r)
    \/ \E r \in Reqs : Authenticate(r)
    \/ \E r \in Reqs : DecodeValidate(r)
    \/ \E r \in Reqs : LookupRepo(r)
    \/ \E r \in Reqs, evalFails \in BOOLEAN : Authorize(r, evalFails)
    \/ \E r \in Reqs, ok \in BOOLEAN : Clone(r, ok)
    \/ \E r \in Reqs : ApplyCommand(r)
    \/ \E r \in Reqs, ok \in BOOLEAN : CommitChanges(r, ok)
    \/ \E r \in Reqs, ok \in BOOLEAN : Push(r, ok)

SpecConcurrent == Init /\ [][NextConcurrent]_vars

----------------------------------------------------------------------------
(* Vocabulary of the properties *)

RequestCommands(r) == req[r].body.commands
Answered(r) == Len(resp[r]) > 0
Status(r) == resp[r][1].status
\* The commits of the upstream that request r pushed.
PushedBy(r) == {i \in 1..Len(remote) : remote[i].by = r}
\* No step of gitClonePatchCommitPush has run for r.
NoPipeline(r) ==
    /\ clones[r] = 0 /\ base[r] = 0 /\ fs[r] = EmptyTree /\ staged[r] = {}
    /\ applied[r] = 0 /\ head[r] = NoCommit /\ pushes[r] = 0 /\ PushedBy(r) = {}
\* The policy has not been evaluated for r.
NoAuthorization(r) == evals[r] = <<>> /\ authz[r] = NoDecision

\* The working tree after the first k commands, each applied to the result of
\* the one before.
RECURSIVE TreeAfter(_, _, _)
TreeAfter(tree, cmds, k) ==
    IF k = 0 THEN tree
    ELSE ApplyPatchCommand(TreeAfter(tree, cmds, k - 1), cmds[k]).fs

\* Command k is the first command of the list that fails on the tree.
FirstFailure(tree, cmds, k) ==
    /\ k \in 1..Len(cmds)
    /\ \A j \in 1..k : ApplyPatchCommand(TreeAfter(tree, cmds, j - 1), cmds[j]).err.isErr <=> j = k

----------------------------------------------------------------------------
\* C1. Atomicity: when command k of a request's n commands fails on the
\* tree that the request cloned and patched with commands 1..k-1, the request
\* never has a commit (neither local nor upstream) and never attempts a push,
\* although commands 1..k-1 were applied and staged in its working tree.
C1_Atomicity ==
    \A r \in Reqs :
        (base[r] > 0 /\ \E k \in 1..Len(RequestCommands(r)) :
                            FirstFailure(remote[base[r]].tree, RequestCommands(r), k))
        => /\ head[r] = NoCommit
           /\ pushes[r] = 0
           /\ PushedBy(r) = {}
           /\ Len(remote) = base[r]
           /\ \A k \in 1..Len(RequestCommands(r)) :
                FirstFailure(remote[base[r]].tree, RequestCommands(r), k)
                => /\ applied[r] < k
                   /\ (pc[r] = "done" => applied[r] = k - 1 /\ Answered(r) /\ Status(r) # StatusOK)

\* A request whose second command failed after the first was applied and staged.
C1_Witness ==
    \E r \in Reqs :
        /\ pc[r] = "done" /\ base[r] > 0
        /\ Len(RequestCommands(r)) = 2 /\ applied[r] = 1
        /\ staged[r] = {RequestCommands(r)[1].path}
        /\ fs[r] # remote[base[r]].tree
        /\ FirstFailure(remote[base[r]].tree, RequestCommands(r), 2)
        /\ Status(r) = StatusUnprocessableEntity

----------------------------------------------------------------------------
\* The steps of gitClonePatchCommitPush all succeeded for r.
AllStepsSucceeded(r) ==
    /\ clones[r] = 1 /\ base[r] > 0
    /\ applied[r] = Len(RequestCommands(r))
    /\ \A k \in 1..Len(RequestCommands(r)) :
        ~FirstFailure(remote[base[r]].tree, RequestCommands(r), k)
    /\ staged[r] = {RequestCommands(r)[k].path : k \in 1..Len(RequestCommands(r))}
    /\ head[r] # NoCommit
    /\ pushes[r] = 1

\* C2. The upstream gains a commit from a request if and only if the request is
\* answered 200: a 200 and an upstream commit exist only after clone, every
\* command, staging, commit and push succeeded, and a request that ended with
\* any other status has written nothing to the upstream.
C2_CommitIffOK ==
    \A r \in Reqs :
        /\ pc[r] = "done" => (PushedBy(r) # {} <=> (Answered(r) /\ Status(r) = StatusOK))
        /\ pc[r] # "done" => PushedBy(r) = {} /\ ~Answered(r)
        /\ PushedBy(r) # {} \/ (Answered(r) /\ Status(r) = StatusOK)
            => /\ AllStepsSucceeded(r)
               /\ PushedBy(r) = {base[r] + 1}
               /\ remote[base[r] + 1] = head[r]
        /\ Len(remote) = 1 + Cardinality(UNION {PushedBy(o) : o \in Reqs})

\* A request answered 200 whose commit changed the upstream tree.
C2_Witness ==
    \E r \in Reqs :
        /\ pc[r] = "done" /\ Status(r) = StatusOK
        /\ PushedBy(r) = {2}
        /\ remote[2].tree # remote[1].tree
        /\ Len(RequestCommands(r)) = 2

----------------------------------------------------------------------------
PolicyInput(r) == PatchInput(req[r].repo, req[r].body, authCtx[r])

\* The authorization gate evaluated the policy for r and the violation set is
\* not empty.
Denied(r) == evals[r] = <<"ok">> /\ Violations(PolicyInput(r)) # {}

\* C3. A request that the authorization gate denies (non-empty violation set)
\* is answered 403 and never reaches the pipeline: no clone, no command
\* application, no commit and no push is performed for it.
C3_DeniedNeverReachesPipeline ==
    \A r \in Reqs :
        Denied(r) => /\ pc[r] = "done"
                     /\ Len(resp[r]) = 1 /\ Status(r) = StatusForbidden
                     /\ NoPipeline(r)

\* A denied request that has been answered.
C3_Witness ==
    \E r \in Reqs : Denied(r) /\ pc[r] = "done" /\ Status(r) = StatusForbidden
                    /\ Len(RequestCommands(r)) = 2

----------------------------------------------------------------------------
\* The Authorization header is missing, does not use the Bearer scheme, or
\* carries a token that the key set does not verify.
BadToken(r) ==
    \/ req[r].header.scheme = "none"
    \/ req[r].header.scheme # "Bearer"
    \/ req[r].header.token \notin ValidTokens

\* C4. A request whose token is missing, does not use the Bearer scheme or is
\* invalid is answered 401 and never reaches authorization: the patch handler,
\* the policy evaluation and every Git operation stay untouched for it.
C4_UnauthenticatedStopsAtMiddleware ==
    \A r \in Reqs :
        pc[r] # "idle" /\ BadToken(r)
        => /\ pc[r] \in {"authenticate", "done"}
           /\ authCtx[r] = NoAuthCtx
           /\ NoAuthorization(r)
           /\ NoPipeline(r)
           /\ pc[r] = "done" => Len(resp[r]) = 1 /\ Status(r) = StatusUnauthorized

\* A request with a verifiable token under another scheme, answered 401 although
\* its body and repository are fine.
C4_Witness ==
    \E r \in Reqs :
        /\ pc[r] = "done" /\ Status(r) = StatusUnauthorized
        /\ req[r].header = Header("Basic", "tokA")
        /\ req[r].repo \in ConfigRepositories
        /\ ~DecodeFails(req[r].body) /\ RequestValidate(req[r].body) = ""

----------------------------------------------------------------------------
\* The path lies under the GitLab project path of the caller's token:
\* my-group/my-project/** for project_path "my-group/my-project".
UnderProjectPath(r, path) == IsPrefix(authCtx[r].claims.project_path, path.dir)

\* C5. Under the default policy with GitLab authentication a patch request
\* yields zero violations if and only if every command path ends in .yml or
\* .yaml and lies under the GitLab project path of the caller's token.
C5_DefaultPolicyScope ==
    \A r \in Reqs :
        evals[r] = <<"ok">>
        => (Violations(PolicyInput(r)) = {}
            <=> \A k \in 1..Len(RequestCommands(r)) :
                    /\ HasYamlSuffix(RequestCommands(r)[k].path)
                    /\ UnderProjectPath(r, RequestCommands(r)[k].path))

----------------------------------------------------------------------------
\* The response the authorization step gave, if it gave one.
AuthorizationResponses(r) ==
    {resp[r][i] : i \in {j \in 1..Len(resp[r]) :
                            resp[r][j].cause \in {"Authorization failed", "Authorization error"}}}

\* C6. AllowPatch classifies every evaluation into exactly one of three
\* outcomes: an empty violation set allows the request; a non-empty violation
\* set is a denial that carries the violations and is answered 403; an
\* evaluation error is answered 500 with no message, and is never an allow nor
\* a 403.
C6_ThreeOutcomes ==
    \A r \in Reqs :
        /\ Len(evals[r]) <= 1
        /\ evals[r] = <<>> => authz[r] = NoDecision /\ AuthorizationResponses(r) = {}
        /\ evals[r] = <<"ok">> /\ Violations(PolicyInput(r)) = {}
            => /\ authz[r] = Allowed
               /\ AuthorizationResponses(r) = {}
               /\ pc[r] \in {"clone", "apply", "commit", "push", "done"}
        /\ evals[r] = <<"ok">> /\ Violations(PolicyInput(r)) # {}
            => /\ authz[r] = ViolationsError(Violations(PolicyInput(r)))
               /\ resp[r] = <<Response(StatusForbidden, "Authorization failed", "violations",
                                       Violations(PolicyInput(r)))>>
               /\ pc[r] = "done" /\ NoPipeline(r)
        /\ evals[r] = <<"error">>
            => /\ authz[r] = EvalError
               /\ resp[r] = <<Response(StatusInternalServerError, "Authorization error", "", {})>>
               /\ pc[r] = "done" /\ NoPipeline(r)

\* The evaluation failed for a request that the policy would have allowed, and
\* the request was answered 500.
C6_Witness ==
    \E r \in Reqs :
        /\ evals[r] = <<"error">> /\ pc[r] = "done"
        /\ Violations(PolicyInput(r)) = {}
        /\ Status(r) = StatusInternalServerError

----------------------------------------------------------------------------
\* Command k of r fails the check of the authorized prefix / of the extension.
FailsPrefixCheck(r, k) == ~StartsWithProjectPrefix(PolicyInput(r), RequestCommands(r)[k].path)
FailsYamlCheck(r, k) == ~GlobMatchYaml(RequestCommands(r)[k].path)

\* Every violation that applies to r, check by check and command by command.
ApplicableViolations(r) ==
    {v \in [check : {"not a prefix of GitLab project path", "not a YAML file"},
            path : {RequestCommands(r)[k].path : k \in 1..Len(RequestCommands(r))}] :
        \E k \in 1..Len(RequestCommands(r)) :
            /\ v.path = RequestCommands(r)[k].path
            /\ \/ v.check = "not a prefix of GitLab project path" /\ FailsPrefixCheck(r, k)
               \/ v.check = "not a YAML file" /\ FailsYamlCheck(r, k)}

\* C7. When a request fails several independent policy checks, the single 403
\* response lists every applicable violation, one line per violation: no
\* failing check suppresses the evaluation or the reporting of another.
C7_AllViolationsReported ==
    \A r \in Reqs :
        evals[r] = <<"ok">> /\ ApplicableViolations(r) # {}
        => /\ Len(resp[r]) = 1
           /\ Status(r) = StatusForbidden
           /\ resp[r][1].violations = ApplicableViolations(r)

\* A 403 that lists three violations: one command fails both checks, another
\* command fails the check of the extension only.
C7_Witness ==
    \E r \in Reqs :
        /\ pc[r] = "done" /\ Status(r) = StatusForbidden
        /\ Len(RequestCommands(r)) = 2
        /\ FailsPrefixCheck(r, 1) /\ FailsYamlCheck(r, 1)
        /\ ~FailsPrefixCheck(r, 2) /\ FailsYamlCheck(r, 2)
        /\ Cardinality(resp[r][1].violations) = 3

----------------------------------------------------------------------------
\* The middleware authenticated r and passed it on to Handler.patch.
Authenticated(r) == authCtx[r] # NoAuthCtx

SignatureIncomplete(sig) == sig.set /\ (sig.name = "" \/ sig.email = "")

\* The body of r is malformed, or it is incomplete: no commands, a command
\* with an empty path, a signature without name or email.
IncompleteBody(r) ==
    \/ req[r].body.malformed
    \/ Len(RequestCommands(r)) = 0
    \/ \E k \in 1..Len(RequestCommands(r)) : RequestCommands(r)[k].path = EmptyPath
    \/ SignatureIncomplete(req[r].body.commit.committer)
    \/ SignatureIncomplete(req[r].body.commit.author)

\* The body of r does not decode or fails validation.
InvalidBody(r) ==
    IncompleteBody(r) \/ DecodeFails(req[r].body) \/ RequestValidate(req[r].body) # ""

\* C8. A request whose body is malformed or fails validation (no commands, an
\* empty path, a commit signature without name or email, ...) never touches
\* the repository: no policy evaluation, clone, commit or push happens for it;
\* and Handler.patch, which the request reaches once the middleware has
\* authenticated it, answers it 400.
C8_InvalidBodyIs400 ==
    \A r \in Reqs :
        pc[r] # "idle" /\ InvalidBody(r)
        => /\ pc[r] \in {"authenticate", "decode", "done"}
           /\ NoAuthorization(r)
           /\ NoPipeline(r)
           /\ Authenticated(r) /\ pc[r] = "done"
                => Len(resp[r]) = 1 /\ Status(r) = StatusBadRequest

\* A request that only its commit metadata makes invalid (a committer without
\* email): the repository is configured and the policy would allow the
\* commands.  It is answered 400.
C8_Witness ==
    \E r \in Reqs :
        /\ pc[r] = "done" /\ Authenticated(r) /\ Status(r) = StatusBadRequest
        /\ req[r].repo \in ConfigRepositories
        /\ SignatureIncomplete(req[r].body.commit.committer)
        /\ Len(RequestCommands(r)) = 1
        /\ CommandValidate(RequestCommands(r)[1]) = ""
        /\ Violations(PolicyInput(r)) = {}

----------------------------------------------------------------------------
\* The number of variants a command populates.
VariantCount(c) ==
    (IF c.setField.set THEN 1 ELSE 0) + (IF c.createFile.set THEN 1 ELSE 0)
        + (IF c.deleteFile THEN 1 ELSE 0)

\* Nothing but the variants of its commands can make the body of r invalid.
WellFormedButVariants(r) ==
    /\ ~IncompleteBody(r)
    /\ \A k \in 1..Len(RequestCommands(r)) :
        RequestCommands(r)[k].setField.set
            => SetFieldValidate(RequestCommands(r)[k].setField) = ""

\* Handler.patch rejected the body of r with 400, before authorization.
RejectedBody(r) ==
    /\ pc[r] = "done" /\ Len(resp[r]) = 1 /\ Status(r) = StatusBadRequest
    /\ NoAuthorization(r)

\* C9. Validation accepts a command if and only if exactly one of the variants
\* setField / createFile / deleteFile is populated; a command with none of
\* them, or with more than one, is rejected (400) before authorization.
C9_ExactlyOneVariant ==
    \A r \in Reqs :
        Authenticated(r) /\ WellFormedButVariants(r) /\ pc[r] \notin {"idle", "authenticate", "decode"}
        => (RejectedBody(r)
            <=> \E k \in 1..Len(RequestCommands(r)) : VariantCount(RequestCommands(r)[k]) # 1)

----------------------------------------------------------------------------
\* C10 as stated: a request that names a repository which is not configured is
\* answered 404 (read for the requests that Handler.patch serves), and no
\* policy evaluation, clone, commit or push is performed for it.
C10_UnknownRepoIs404 ==
    \A r \in Reqs :
        req[r].repo \notin ConfigRepositories /\ Authenticated(r) /\ pc[r] = "done"
        => Status(r) = StatusNotFound /\ NoAuthorization(r) /\ NoPipeline(r)

\* C10, amended. For a request that names a repository which is not configured
\* no policy evaluation, clone, commit or push is performed; it is answered
\* 404 when its body decodes and passes validation, and 400 otherwise, the
\* body being checked before the repository is looked up.
C10_UnknownRepoAfterValidation ==
    \A r \in Reqs :
        req[r].repo \notin ConfigRepositories /\ pc[r] # "idle"
        => /\ pc[r] \in {"authenticate", "decode", "lookup", "done"}
           /\ NoAuthorization(r)
           /\ NoPipeline(r)
           /\ Authenticated(r) /\ pc[r] = "done"
                => /\ Len(resp[r]) = 1
                   /\ Status(r) = IF InvalidBody(r) THEN StatusBadRequest ELSE StatusNotFound

\* A valid request that the policy would allow, for an unconfigured repository,
\* answered 404.
C10_Witness ==
    \E r \in Reqs :
        /\ pc[r] = "done" /\ Authenticated(r) /\ Status(r) = StatusNotFound
        /\ req[r].repo \notin ConfigRepositories
        /\ ~InvalidBody(r)
        /\ Violations(PolicyInput(r)) = {}
        /\ Len(RequestCommands(r)) = 2

----------------------------------------------------------------------------
----------------------------------------------------------------------------
\* The first SetField call succeeded on a node Y that the document held: the
\* path matched exactly Y.
SetExisting == /\ Len(returned) >= 1 /\ returned[1].err = ""
               /\ Cardinality(Find(call.doc, call.path)) = 1
\* The position of Y.
PosY == CHOOSE q \in Find(call.doc, call.path) : TRUE

\* Apart from node Y the document is as it was: every other node has its value,
\* comment, style and place.
OnlyYChanged == ReplaceAt(returned[1].doc, PosY, NoDoc) = ReplaceAt(call.doc, PosY, NoDoc)

\* C12. Formatting preservation: a successful SetField on node Y changes only
\* Y's scalar value; every other node of the document keeps its value, its
\* attached comment, its position in the key order and its scalar style, and
\* Y's own attached comment is kept too.
C12_FormattingPreserved ==
    SetExisting
    => /\ OnlyYChanged
       /\ GetAt(returned[1].doc, PosY).value = call.value.v
       /\ GetAt(returned[1].doc, PosY).comment = GetAt(call.doc, PosY).comment

----------------------------------------------------------------------------
\* The field path of the call matches no node of the document.
NoMatch == Find(call.doc, call.path) = {}

\* C13. Resolving a field path that matches no node with create=false always
\* fails with not-found, which applyPatchCommand reports as a client error of
\* status 422, and the document and the file in the working tree are left
\* unchanged.
C13_MissingFieldNotFound ==
    ~call.createKeys /\ NoMatch
    => /\ \A i \in 1..Len(returned) :
            returned[i].err = "no nodes matched path" /\ returned[i].doc = call.doc
       /\ \A i \in 1..Len(outcomes) :
            /\ outcomes[i].err = ClientError("no nodes matched path", StatusUnprocessableEntity)
            /\ RespondError("Patch failed", outcomes[i].err).status = StatusUnprocessableEntity
            /\ outcomes[i].file = YamlText(call.doc)
       /\ patcher.node = call.doc
       /\ worktree = YamlText(call.doc)

\* "yaml without key": spec.image.tag on the document "spec:" without create.
C13_Witness ==
    /\ call.doc = DocSpecNull /\ ~call.createKeys /\ NoMatch
    /\ call.path = <<Key("spec"), Key("image"), Key("tag")>>
    /\ Len(returned) = 1 /\ Len(outcomes) = 1
    /\ outcomes[1].err.isErr

----------------------------------------------------------------------------
\* The path of the call is made of dot-separated keys only.
KeysOnly == \A i \in 1..Len(call.path) : call.path[i].sel = "none"
CallKeys == [i \in 1..Len(call.path) |-> call.path[i].key]

\* The root mapping that keys are created in: the document, or an empty mapping
\* for the empty document.
RootMapping == IF call.doc = DocEmpty THEN MappingNode(<<>>, <<>>, "") ELSE call.doc

\* The position of the node that the longest existing prefix of the keys leads
\* to, through mappings.
RECURSIVE PrefixPosition(_, _)
PrefixPosition(node, keys) ==
    IF keys = <<>> \/ node.kind # "mapping" \/ FirstKey(node, Head(keys)) = 0 THEN <<>>
    ELSE <<FirstKey(node, Head(keys))>>
            \o PrefixPosition(node.content[FirstKey(node, Head(keys))], Tail(keys))

\* The key path is missing: some keys of the path do not exist, and the mapping
\* that lacks the first of them does.
MissingKeyPath ==
    /\ KeysOnly
    /\ Len(PrefixPosition(RootMapping, CallKeys)) < Len(CallKeys)
    /\ GetAt(RootMapping, PrefixPosition(RootMapping, CallKeys)).kind = "mapping"

\* The document with the missing keys appended to that mapping: a chain of
\* mappings that ends with the scalar holding the value.
Materialized ==
    LET pos == PrefixPosition(RootMapping, CallKeys)
        parent == GetAt(RootMapping, pos)
        missing == SubSeq(CallKeys, Len(pos) + 1, Len(CallKeys))
    IN  ReplaceAt(RootMapping, pos,
            [parent EXCEPT !.keys = Append(@, Head(missing)),
                           !.content = Append(@, Chain(Tail(missing), EncodeValue(call.value)))])

C14_WitnessEmptyDocument ==
    /\ call.createKeys /\ call.doc = DocEmpty /\ Len(returned) >= 1
    /\ call.path = <<Key("spec"), Key("image"), Key("tag")>>
    /\ returned[1].doc = Chain(<<"spec", "image", "tag">>, EncodeValue(call.value))

----------------------------------------------------------------------------
\* The path of the call resolves to one node, which is no scalar.
ResolvesToNonScalar ==
    /\ Cardinality(Find(call.doc, call.path)) = 1
    /\ GetAt(call.doc, PosY).kind \in {"mapping", "sequence"}

\* C15. A set-field whose path resolves to a non-scalar node (a mapping or a
\* sequence) fails with NotScalar, whatever the create flag, and leaves the
\* nested structure under that node unchanged; applyPatchCommand reports it as
\* a client error and does not rewrite the file.
C15_NonScalarRejected ==
    ResolvesToNonScalar
    => /\ \A i \in 1..Len(returned) :
            /\ returned[i].err = "expected scalar node"
            /\ returned[i].doc = call.doc
       /\ \A i \in 1..Len(outcomes) :
            /\ outcomes[i].err = ClientError("expected scalar node", StatusUnprocessableEntity)
            /\ outcomes[i].file = YamlText(call.doc)
       /\ GetAt(patcher.node, PosY) = GetAt(call.doc, PosY)

\* "yaml with non-leaf key": spec.image.tag holds the mapping name: Foo.
C15_Witness ==
    /\ ResolvesToNonScalar /\ Len(returned) = 1 /\ Len(outcomes) = 1
    /\ call.doc = DocNonLeaf
    /\ call.path = <<Key("spec"), Key("image"), Key("tag")>>
    /\ GetAt(patcher.node, PosY).keys = <<"name">>

----------------------------------------------------------------------------
\* The path of the call matches more than one node of the document.
MultipleMatches == Cardinality(Find(call.doc, call.path)) > 1

----------------------------------------------------------------------------
\* The call addresses the elements of the sequence env by a predicate.
PredicateCall ==
    /\ call.path[1].sel = "filter"
    /\ call.doc.kind = "mapping"
    /\ FirstKey(call.doc, call.path[1].key) # 0
    /\ call.doc.content[FirstKey(call.doc, call.path[1].key)].kind = "sequence"

\* The sequence in a document, and the field that the path sets in an element.
EnvOf(doc) == doc.content[FirstKey(call.doc, call.path[1].key)]
FieldOf(elem) == elem.content[FirstKey(elem, call.path[2].key)]

\* The named field of the element equals the literal of the predicate.
SatisfiesPredicate(elem) ==
    \E k \in 1..Len(elem.keys) :
        elem.keys[k] = call.path[1].fkey /\ elem.content[k].value = call.path[1].fval

\* C17. A predicate-addressed set-field (env[?(@.name=='BAR')].value) changes
\* only the elements whose named field equals the literal of the predicate:
\* every element that does not match keeps its value, and the sequence keeps
\* its length and order; a successful call leaves the value in the matching
\* element.
C17_PredicateFrame ==
    PredicateCall
    => \A i \in 1..Len(returned) :
        LET before == EnvOf(call.doc).content
            after == EnvOf(returned[i].doc).content
        IN  /\ EnvOf(returned[i].doc).kind = "sequence"
            /\ Len(after) = Len(before)
            /\ \A j \in 1..Len(before) :
                /\ after[j].keys = before[j].keys
                /\ ~SatisfiesPredicate(before[j]) => after[j] = before[j]
                /\ SatisfiesPredicate(before[j])
                    => /\ SatisfiesPredicate(after[j])
                       /\ returned[i].err = "" => FieldOf(after[j]).value = call.value.v
            /\ (\E j \in 1..Len(before) : SatisfiesPredicate(before[j])) /\ returned[i].err = ""
                => ReplaceAt(returned[i].doc, PosY, NoDoc) = ReplaceAt(call.doc, PosY, NoDoc)

\* "yaml with filter by name": BAR's value is set, FOO's entry is as it was.
C17_Witness ==
    /\ PredicateCall /\ Len(returned) = 1 /\ returned[1].err = ""
    /\ call.doc = DocEnv
    /\ call.path = <<Filter("env", "name", "BAR"), Key("value")>>
    /\ EnvOf(returned[1].doc).content[1] = EnvEntry("FOO", "1")
    /\ FieldOf(EnvOf(returned[1].doc).content[2]).value = call.value.v
    /\ FieldOf(EnvOf(returned[1].doc).content[2]).value # "2"

----------------------------------------------------------------------------
\* The setField command addresses its field with an [n] index or a
\* [?(@.key=='val')] predicate segment.
UsesSelector(c) ==
    c.setField.set /\ \E i \in 1..Len(c.setField.field) : c.setField.field[i].sel # "none"

\* Apart from selectors in its fields, the body of r is complete and each of
\* its commands populates one variant that the handler knows, with non-empty
\* keys.
WellFormedButSelectors(r) ==
    /\ ~IncompleteBody(r)
    /\ \A k \in 1..Len(RequestCommands(r)) :
        LET c == RequestCommands(r)[k]
        IN  /\ ~c.deleteFile
            /\ c.setField.set # c.createFile.set
            /\ c.setField.set
                => /\ Len(c.setField.field) >= 1
                   /\ \A i \in 1..Len(c.setField.field) : c.setField.field[i].key # ""

\* C18. On the HTTP surface, a setField command whose field uses an [n] index
\* segment or a [?(@.key=='val')] predicate segment passes request validation
\* (and is then applied to the addressed node).
C18_SelectorsPassValidation ==
    \A r \in Reqs :
        /\ Authenticated(r) /\ WellFormedButSelectors(r)
        /\ \E k \in 1..Len(RequestCommands(r)) : UsesSelector(RequestCommands(r)[k])
        => ~RejectedBody(r)

----------------------------------------------------------------------------
\* foo: baz, the file that SetFoo leaves of foo: bar
DocFooBaz == MappingNode(<<"foo">>, <<EncodeValue(StringValue("baz"))>>, "")

CreateThenSet ==
    <<Command(PathNew, NoSetField, CreateFile(YamlText(DocFooBar)), FALSE),
      Command(PathNew, SetFoo, NoCreateFile, FALSE)>>

\* C19. The commands of a request are applied once each, in request order,
\* against one working tree that is checked out once at the start of the
\* pipeline: after k commands the tree is the cloned tree with commands 1..k
\* applied one after the other, so each command sees the effects of the
\* earlier ones (a create-file followed by a set-field on the same path
\* succeeds), and the pushed commit holds the effects of all of them.
C19_SharedWorkingTree ==
    \A r \in Reqs :
        base[r] > 0
        => /\ clones[r] = 1
           /\ applied[r] <= Len(RequestCommands(r))
           /\ fs[r] = TreeAfter(remote[base[r]].tree, RequestCommands(r), applied[r])
           /\ staged[r] = {RequestCommands(r)[k].path : k \in 1..applied[r]}
           /\ \A k \in 1..applied[r] :
                ~ApplyPatchCommand(TreeAfter(remote[base[r]].tree, RequestCommands(r), k - 1),
                                   RequestCommands(r)[k]).err.isErr
           /\ \A i \in PushedBy(r) :
                remote[i].tree = TreeAfter(remote[base[r]].tree, RequestCommands(r),
                                           Len(RequestCommands(r)))
           /\ RequestCommands(r) = CreateThenSet /\ applied[r] >= 1
                => \A i \in 1..Len(resp[r]) : resp[r][i].status # StatusUnprocessableEntity
           /\ RequestCommands(r) = CreateThenSet /\ PushedBy(r) # {}
                => remote[Len(remote)].tree[PathNew] = YamlText(DocFooBaz)

\* A create-file followed by a set-field on the same path: answered 200, the
\* pushed file is the created file with the field set.
C19_Witness ==
    \E r \in Reqs :
        /\ RequestCommands(r) = CreateThenSet
        /\ pc[r] = "done" /\ Status(r) = StatusOK
        /\ remote[1].tree[PathNew] = NoFile
        /\ remote[Len(remote)].tree[PathNew] = YamlText(DocFooBaz)

\* Two set-fields on the same file: both fields are in the pushed file.
C19_WitnessTwoSetFields ==
    \E r \in Reqs :
        /\ RequestCommands(r)
            = <<Command(PathRelease, SetFoo, NoCreateFile, FALSE),
                Command(PathRelease, SetField(FieldSpecTag, StringValue("1.2.3"), TRUE),
                        NoCreateFile, FALSE)>>
        /\ pc[r] = "done" /\ Status(r) = StatusOK
        /\ remote[Len(remote)].tree[PathRelease].doc.keys = <<"foo", "spec">>
        /\ remote[Len(remote)].tree[PathRelease].doc.content[1].value = "baz"

----------------------------------------------------------------------------
\* The command the loop of request r stands at.
NextCommand(r) == RequestCommands(r)[applied[r] + 1]

\* The loop of request r has stopped at a set-field command whose path is not
\* in the working tree.
StoppedAtMissingFile(r) ==
    /\ base[r] > 0 /\ pc[r] = "done"
    /\ applied[r] < Len(RequestCommands(r))
    /\ NextCommand(r).setField.set
    /\ fs[r][NextCommand(r).path].kind = "absent"

\* C20. A set-field command on a path that is not in the working tree fails
\* with "file does not exist": the request is answered 422 with that cause,
\* nothing is committed and no commit is pushed.
C20_MissingFileIs422 ==
    \A r \in Reqs :
        StoppedAtMissingFile(r)
        => /\ resp[r] = <<Response(StatusUnprocessableEntity, "Patch failed",
                                   "file does not exist", {})>>
           /\ head[r] = NoCommit
           /\ pushes[r] = 0
           /\ PushedBy(r) = {}

\* A set-field on a new path, as the first command and after an earlier
\* command has been applied.
C20_Witness ==
    \E r \in Reqs : StoppedAtMissingFile(r) /\ applied[r] = 0 /\ Answered(r)

C20_WitnessAfterEarlierCommand ==
    \E r \in Reqs : StoppedAtMissingFile(r) /\ applied[r] > 0 /\ Answered(r)

----------------------------------------------------------------------------
\* Command k of request r is a create-file whose path is in the working tree
\* that the earlier commands of the request leave.
CreatesExisting(r, k) ==
    /\ k \in 1..Len(RequestCommands(r))
    /\ RequestCommands(r)[k].createFile.set
    /\ TreeAfter(remote[base[r]].tree, RequestCommands(r), k - 1)[RequestCommands(r)[k].path].kind
         # "absent"

\* C21. A create-file command whose path already exists in the working tree
\* fails with "file already exists" (422) and writes nothing: the command is
\* never applied, the existing content stays, nothing is committed or pushed.
C21_ExistingFileRejected ==
    \A r \in Reqs :
        base[r] > 0
        => /\ \A k \in 1..applied[r] : ~CreatesExisting(r, k)
           /\ pc[r] = "done" /\ CreatesExisting(r, applied[r] + 1)
                => /\ resp[r] = <<Response(StatusUnprocessableEntity, "Patch failed",
                                           "file already exists", {})>>
                   /\ fs[r][NextCommand(r).path]
                        = TreeAfter(remote[base[r]].tree, RequestCommands(r),
                                    applied[r])[NextCommand(r).path]
                   /\ head[r] = NoCommit
                   /\ PushedBy(r) = {}

----------------------------------------------------------------------------
\* Command k is the last command of request r on its path.
LastOnPath(r, k) ==
    \A j \in (k + 1)..Len(RequestCommands(r)) :
        RequestCommands(r)[j].path # RequestCommands(r)[k].path

\* C22. A create-file command on a path that does not exist yet writes the
\* given content as it is, YAML or not: the command does not fail, and in the
\* commit the request pushes the file holds exactly that content (unless a
\* later command of the request changes the same path).
C22_CreateFileVerbatim ==
    \A r \in Reqs :
        /\ ~(/\ base[r] > 0 /\ pc[r] = "done"
             /\ applied[r] < Len(RequestCommands(r))
             /\ NextCommand(r).createFile.set
             /\ fs[r][NextCommand(r).path].kind = "absent")
        /\ \A i \in PushedBy(r), k \in 1..Len(RequestCommands(r)) :
             RequestCommands(r)[k].createFile.set /\ LastOnPath(r, k)
             => remote[i].tree[RequestCommands(r)[k].path]
                  = RequestCommands(r)[k].createFile.content

\* A text that is no YAML, created on a new path and pushed.
C22_Witness ==
    \E r \in Reqs :
        /\ RequestCommands(r) = <<Command(PathNew, NoSetField, CreateFile(InvalidText), FALSE)>>
        /\ pc[r] = "done" /\ Status(r) = StatusOK
        /\ remote[1].tree[PathNew] = NoFile
        /\ remote[Len(remote)].by = r
        /\ remote[Len(remote)].tree[PathNew] = InvalidText

----------------------------------------------------------------------------
\* Command k of request r populates deleteFile and nothing else.
DeletesFile(r, k) ==
    /\ RequestCommands(r)[k].deleteFile
    /\ ~RequestCommands(r)[k].setField.set
    /\ ~RequestCommands(r)[k].createFile.set

\* An authenticated request for a configured repository whose commands each
\* populate one variant, one of them deleteFile.
DeleteRequest(r) ==
    /\ Authenticated(r) /\ req[r].repo \in ConfigRepositories
    /\ WellFormedButVariants(r)
    /\ \A k \in 1..Len(RequestCommands(r)) : VariantCount(RequestCommands(r)[k]) = 1
    /\ \E k \in 1..Len(RequestCommands(r)) : DeletesFile(r, k)

\* C23. A delete-file command on an existing path removes the path from the
\* tree, so that the pushed commit does not hold the file; on an absent path
\* it fails with "file does not exist" (422) and nothing is pushed.  A request
\* with such a command is served as a patch, not refused as an invalid body.
C23_DeleteFile ==
    \A r \in Reqs :
        DeleteRequest(r) /\ pc[r] = "done"
        => /\ Status(r) # StatusBadRequest
           /\ \A i \in PushedBy(r), k \in 1..Len(RequestCommands(r)) :
                DeletesFile(r, k) /\ LastOnPath(r, k)
                => remote[i].tree[RequestCommands(r)[k].path] = NoFile
           /\ \A k \in 1..Len(RequestCommands(r)) :
                /\ DeletesFile(r, k) /\ k = applied[r] + 1 /\ base[r] > 0
                /\ fs[r][RequestCommands(r)[k].path].kind = "absent"
                => /\ resp[r] = <<Response(StatusUnprocessableEntity, "Patch failed",
                                           "file does not exist", {})>>
                   /\ PushedBy(r) = {}

----------------------------------------------------------------------------
\* C24. The message of the commit a request pushes is the commit message of
\* the request when it gives one (a non-empty string), and otherwise the
\* configured default message.
C24_CommitMessage ==
    \A r \in Reqs :
        /\ head[r] # NoCommit
             => head[r].message = IF req[r].body.commit.message # ""
                                    THEN req[r].body.commit.message
                                    ELSE "Automated patch by vignet"
        /\ \A i \in PushedBy(r) : remote[i] = head[r]

\* A pushed commit with the message of the request.
C24_Witness ==
    \E r \in Reqs :
        /\ req[r].body.commit.message = "Bump release"
        /\ pc[r] = "done" /\ Status(r) = StatusOK
        /\ remote[Len(remote)].by = r
        /\ remote[Len(remote)].message = "Bump release"

\* A pushed commit with the default message.
C24_WitnessDefault ==
    \E r \in Reqs :
        /\ req[r].body.commit.message = ""
        /\ pc[r] = "done" /\ Status(r) = StatusOK
        /\ remote[Len(remote)].by = r
        /\ remote[Len(remote)].message = ConfigDefaultMessage

----------------------------------------------------------------------------
\* The identity of the caller's verified claims.
ClaimsIdentity(r) == Signature(authCtx[r].claims.user_login, authCtx[r].claims.user_email)

\* The identity the stated order gives: the request's, else the configured
\* default, else the one derived from the claims.
StatedIdentity(r, supplied) ==
    IF supplied.set THEN Signature(supplied.name, supplied.email)
    ELSE IF ConfigDefaultAuthor.set THEN Signature("vignet", "bot@vignet")
    ELSE ClaimsIdentity(r)

\* C25 as stated: for the author and for the committer alike the identity of
\* the commit is the request-supplied one when given, else the configured
\* default identity, else the identity derived from the caller's claims.
C25_IdentityPrecedence ==
    \A r \in Reqs :
        head[r] # NoCommit
        => /\ head[r].author = StatedIdentity(r, req[r].body.commit.author)
           /\ head[r].committer = StatedIdentity(r, req[r].body.commit.committer)

\* C25, amended. The author is the request-supplied author when given, else
\* the configured default author.  The committer is the request-supplied
\* committer when given, else the identity derived from the caller's verified
\* claims, else (no claims) the author of the commit.
C25_AuthorAndCommitter ==
    \A r \in Reqs :
        head[r] # NoCommit
        => /\ head[r].author
                = IF req[r].body.commit.author.set
                    THEN Signature(req[r].body.commit.author.name,
                                   req[r].body.commit.author.email)
                    ELSE Signature("vignet", "bot@vignet")
           /\ head[r].committer
                = IF req[r].body.commit.committer.set
                    THEN Signature(req[r].body.commit.committer.name,
                                   req[r].body.commit.committer.email)
                  ELSE IF authCtx[r].hasClaims THEN ClaimsIdentity(r)
                  ELSE head[r].author
           /\ \A i \in PushedBy(r) :
                remote[i].author = head[r].author /\ remote[i].committer = head[r].committer

\* A pushed commit of a request that names no committer: the committer is the
\* caller of the claims, not the configured default identity.
C25_Witness ==
    \E r \in Reqs :
        /\ ~req[r].body.commit.committer.set /\ ~req[r].body.commit.author.set
        /\ pc[r] = "done" /\ Status(r) = StatusOK
        /\ remote[Len(remote)].by = r
        /\ remote[Len(remote)].author = Signature("vignet", "bot@vignet")
        /\ remote[Len(remote)].committer = Signature("j.doe", "j.doe@example.com")

\* Pushed commits with the author, resp. the committer, of the request.
C25_WitnessRequestAuthor ==
    \E r \in Reqs :
        /\ req[r].body.commit.author = Signature("dev", "dev@example.com")
        /\ PushedBy(r) # {} /\ remote[Len(remote)].author = Signature("dev", "dev@example.com")

C25_WitnessRequestCommitter ==
    \E r \in Reqs :
        /\ req[r].body.commit.committer = Signature("ops", "ops@example.com")
        /\ PushedBy(r) # {} /\ remote[Len(remote)].committer = Signature("ops", "ops@example.com")

----------------------------------------------------------------------------
\* Request r has pushed once and the upstream did not take its commit.
PushRejected(r) == pc[r] = "done" /\ pushes[r] = 1 /\ PushedBy(r) = {}

\* C26. Concurrent requests for one repository are not coordinated: each
\* clones the tip the upstream has at that moment.  Of the requests that
\* cloned the same tip at most one has its push accepted; a request whose
\* push is not accepted ends in failure (500); and a commit the upstream
\* accepted stays in its history, on top of the commit it was built on.
C26_PushRace ==
    /\ \A r \in Reqs : base[r] > 0 => base[r] <= Len(remote)
    /\ \A r1, r2 \in Reqs :
         r1 # r2 /\ base[r1] > 0 /\ base[r1] = base[r2]
         => PushedBy(r1) = {} \/ PushedBy(r2) = {}
    /\ \A r \in Reqs :
         /\ PushRejected(r)
              => resp[r] = <<Response(StatusInternalServerError, "Patch failed", "", {})>>
         /\ Answered(r) /\ Status(r) = StatusOK => PushedBy(r) # {}
         /\ Cardinality(PushedBy(r)) <= 1
    /\ remote[1].by = 0
    /\ \A i \in 2..Len(remote) :
         /\ remote[i].by \in Reqs
         /\ remote[i] = head[remote[i].by]
         /\ base[remote[i].by] = i - 1

\* Two requests cloned the same tip; the push of one was accepted and the
\* other, pushing second, ended in failure.
C26_Witness ==
    \E r1, r2 \in Reqs :
        /\ r1 # r2 /\ base[r1] > 0 /\ base[r1] = base[r2]
        /\ PushedBy(r1) # {} /\ Status(r1) = StatusOK
        /\ PushRejected(r2) /\ Status(r2) = StatusInternalServerError
        /\ remote[Len(remote)].by = r1

----------------------------------------------------------------------------
\* C27. The pipeline is bound to the cancellation signal of the request: when
\* the request is cancelled during clone or during push, that operation is
\* aborted and the pipeline ends in failure, and no commit of the request
\* reaches the upstream.
C27_CancellationAborts ==
    \A r \in Reqs :
        /\ cancelled[r] = "clone" => base[r] = 0 /\ head[r] = NoCommit
        /\ cancelled[r] \in {"clone", "push"}
             => /\ PushedBy(r) = {}
                /\ pc[r] = "done" => Status(r) # StatusOK

----------------------------------------------------------------------------
\* The internal failures of serving request r: the policy evaluation, the
\* clone, reading a file that is no YAML, the commit, the push.
EvaluationFailed(r) == evals[r] = <<"error">>
CloneFailed(r) == pc[r] = "done" /\ clones[r] = 1 /\ base[r] = 0
ReadFailed(r) ==
    /\ base[r] > 0 /\ pc[r] = "done" /\ applied[r] < Len(RequestCommands(r))
    /\ NextCommand(r).setField.set /\ fs[r][NextCommand(r).path].kind = "invalid"
CommitFailed(r) ==
    /\ base[r] > 0 /\ pc[r] = "done" /\ applied[r] = Len(RequestCommands(r))
    /\ head[r] = NoCommit
InternalFailure(r) ==
    EvaluationFailed(r) \/ CloneFailed(r) \/ ReadFailed(r) \/ CommitFailed(r) \/ PushRejected(r)

\* C28. Every internal error (a failure of the policy evaluation, of the
\* clone, of the commit, of the push, any error of the pipeline that is no
\* client error) is answered 500 with the generic cause label alone, never
\* with the text of the error; only client errors (4xx) carry the text of
\* their cause, as the 422 of a failed command does.
C28_InternalErrorsWithheld ==
    \A r \in Reqs :
        /\ InternalFailure(r)
             => /\ pc[r] = "done" /\ Len(resp[r]) = 1
                /\ resp[r][1] = Response(StatusInternalServerError,
                                         IF EvaluationFailed(r) THEN "Authorization error"
                                                                ELSE "Patch failed", "", {})
        /\ \A i \in 1..Len(resp[r]) :
             /\ resp[r][i].status = StatusInternalServerError => resp[r][i].error = ""
             /\ resp[r][i].error # "" => resp[r][i].status \in 400..499
             /\ resp[r][i].status = StatusUnprocessableEntity => resp[r][i].error # ""

\* A set-field command on a file that is no YAML document: an internal error
\* inside the pipeline, answered 500 without its text.
C28_Witness ==
    \E r \in Reqs :
        /\ ReadFailed(r)
        /\ resp[r] = <<Response(StatusInternalServerError, "Patch failed", "", {})>>

\* A failed clone, a failed policy evaluation, and a client error with its text.
C28_WitnessClone ==
    \E r \in Reqs : CloneFailed(r) /\ Status(r) = StatusInternalServerError

C28_WitnessEvaluation ==
    \E r \in Reqs : EvaluationFailed(r) /\ Status(r) = StatusInternalServerError

C28_WitnessClientError ==
    \E r \in Reqs :
        /\ Answered(r) /\ Status(r) = StatusUnprocessableEntity
        /\ resp[r][1].error = "file does not exist"

----------------------------------------------------------------------------
\* The paths of the first k commands of request r.
TouchedPaths(r, k) == {RequestCommands(r)[j].path : j \in 1..k}

\* The pipeline of r has failed: the request is answered, and not with 200.
PipelineFailed(r) == pc[r] = "done" /\ base[r] + clones[r] > 0 /\ Status(r) # StatusOK
\* The pipeline of r has pushed.
Pushed(r) == pc[r] = "done" /\ PushedBy(r) # {}

\* Each state of the pipeline is entered from the one before it.
StatesInOrder(r) ==
    /\ base[r] > 0 => clones[r] = 1
    /\ applied[r] > 0 => base[r] > 0
    /\ head[r] # NoCommit
         => applied[r] = Len(RequestCommands(r)) /\ staged[r] = TouchedPaths(r, applied[r])
    /\ pushes[r] > 0 => head[r] # NoCommit
    /\ PushedBy(r) # {} => pushes[r] = 1 /\ Status(r) = StatusOK
    /\ PipelineFailed(r) => PushedBy(r) = {}

\* C29 as stated: the pipeline moves through Idle, Cloned, CommandsApplied,
\* Staged, Committed, Pushed in that order, all commands being applied before
\* the touched paths are staged, staging before commit, commit before push,
\* or moves to Failed at the first failing step.
C29_AppliedThenStaged ==
    \A r \in Reqs :
        /\ StatesInOrder(r)
        /\ staged[r] # {} => applied[r] = Len(RequestCommands(r))

\* The position of the handler in the order of its steps.
Rank(p) ==
    CASE p = "idle" -> 0 [] p = "authenticate" -> 1 [] p = "decode" -> 2 [] p = "lookup" -> 3
      [] p = "authorize" -> 4 [] p = "clone" -> 5 [] p = "apply" -> 6 [] p = "commit" -> 7
      [] p = "push" -> 8 [] p = "done" -> 9

\* Request r moves forward by one state or fails, and stays where it ended.
StepsForward(r) ==
    /\ pc'[r] # pc[r] => pc'[r] = "done" \/ Rank(pc'[r]) = Rank(pc[r]) + 1
    /\ pc'[r] = pc[r] => \/ pc[r] = "apply" /\ applied'[r] = applied[r] + 1
                         \/ <<applied[r], staged[r], fs[r]>>' = <<applied[r], staged[r], fs[r]>>
    /\ applied'[r] \in {applied[r], applied[r] + 1}
    /\ staged[r] \subseteq staged'[r]
    /\ pc[r] = "done"
         => /\ <<pc[r], resp[r], clones[r], base[r], fs[r], staged[r]>>'
                 = <<pc[r], resp[r], clones[r], base[r], fs[r], staged[r]>>
            /\ <<applied[r], head[r], pushes[r], PushedBy(r)>>'
                 = <<applied[r], head[r], pushes[r], PushedBy(r)>>

\* C29, amended. The pipeline of a request moves through Idle, Cloned, the
\* commands (each command applied and its path staged before the next command
\* is applied), Committed, Pushed in that order, never skipping a state or
\* going back, the commit coming after the last command is applied and staged
\* and the push after the commit; or it moves to Failed at the first failing
\* step.  Failed and Pushed are terminal: no further step runs after either.
C29_PipelineOrder ==
    /\ [](\A r \in Reqs : /\ StatesInOrder(r)
                          /\ staged[r] = TouchedPaths(r, applied[r]))
    /\ [][\A r \in Reqs : StepsForward(r)]_vars

\* Between two commands: the path of the first command is staged while the
\* second command has not been applied yet.
C29_Witness ==
    \E r \in Reqs :
        /\ pc[r] = "apply" /\ Len(RequestCommands(r)) = 2 /\ applied[r] = 1
        /\ staged[r] = {RequestCommands(r)[1].path}
        /\ RequestCommands(r)[2].path # RequestCommands(r)[1].path

\* The two terminal states.
C29_WitnessPushed ==
    \E r \in Reqs : Pushed(r) /\ Len(RequestCommands(r)) = 2 /\ applied[r] = 2

C29_WitnessFailed ==
    \E r \in Reqs : PipelineFailed(r) /\ applied[r] = 1 /\ head[r] = NoCommit /\ staged[r] # {}

----------------------------------------------------------------------------
\* C30. Nothing is retried: within one request the clone is attempted at most
\* once and the push at most once.  A failed clone ends the request in
\* failure; a push the upstream rejects (the remote has moved) ends it in
\* failure as well, with no new clone and the commit left as it was built on
\* the commit that was cloned (no rebase).
C30_NoRetry ==
    \A r \in Reqs :
        /\ clones[r] <= 1 /\ pushes[r] <= 1
        /\ clones[r] = 1 /\ base[r] = 0
             => /\ pc[r] = "done" /\ Len(resp[r]) = 1
                /\ Status(r) = StatusInternalServerError
                /\ applied[r] = 0 /\ head[r] = NoCommit /\ pushes[r] = 0
        /\ pushes[r] = 1 /\ PushedBy(r) = {}
             => /\ pc[r] = "done" /\ Len(resp[r]) = 1
                /\ Status(r) = StatusInternalServerError
                /\ clones[r] = 1
                /\ head[r].tree = CommitTree(remote[base[r]].tree, fs[r], staged[r])

\* A push rejected because the remote has moved since the clone.
C30_Witness ==
    \E r \in Reqs :
        /\ PushRejected(r) /\ base[r] < Len(remote)
        /\ clones[r] = 1 /\ Status(r) = StatusInternalServerError

\* A failed clone.
C30_WitnessClone ==
    \E r \in Reqs : CloneFailed(r) /\ pushes[r] = 0 /\ Status(r) = StatusInternalServerError

----------------------------------------------------------------------------
\* What request r owns: its clone, its working tree, its index, its commit.
Owned(r) == <<clones[r], base[r], fs[r], staged[r], applied[r], head[r]>>

\* C31. The pipelines of different requests share no mutable state.  Under
\* every interleaving of concurrent requests the working tree of a request is
\* the tree of the tip it cloned with its own commands applied, whatever the
\* other requests do; and a step changes the clone, working tree, index and
\* commit of one request at most.
C31_NoSharedState ==
    /\ [](\A r \in Reqs :
            base[r] > 0
            => /\ fs[r] = TreeAfter(remote[base[r]].tree, RequestCommands(r), applied[r])
               /\ head[r] # NoCommit
                    => head[r].tree = TreeAfter(remote[base[r]].tree, RequestCommands(r),
                                                Len(RequestCommands(r))))
    /\ [][\A r1, r2 \in Reqs :
            r1 # r2 /\ Owned(r1)' # Owned(r1) => Owned(r2)' = Owned(r2)]_vars

\* Two requests in their pipelines at once, cloned from the same tip, each
\* with its own command applied to its own working tree.
C31_Witness ==
    \E r1, r2 \in Reqs :
        /\ r1 # r2 /\ base[r1] > 0 /\ base[r1] = base[r2]
        /\ pc[r1] = "commit" /\ pc[r2] = "commit"
        /\ applied[r1] = 1 /\ applied[r2] = 1
        /\ RequestCommands(r1) # RequestCommands(r2)
        /\ fs[r1] # fs[r2]

----------------------------------------------------------------------------
\* The call asks for creation with a path that has an index or a predicate
\* segment and resolves to no node of the document.
SelectorCreation == call.createKeys /\ ~KeysOnly /\ NoMatch

\* C32. When creation is requested and the field expression has an index or a
\* predicate segment and resolves to no existing node, the set-field is
\* rejected as unsupported: it fails, the document is as it was (no key is
\* created) and the file of the working tree is not rewritten.
C32_SelectorCreationRejected ==
    SelectorCreation
    => /\ Len(returned) >= 1 => returned[1].err # "" /\ returned[1].doc = call.doc
       /\ Len(outcomes) >= 1
            => outcomes[1].err.isErr /\ outcomes[1].file = YamlText(call.doc)

----------------------------------------------------------------------------
\* The sequences of a document: the position and the length of each.
RECURSIVE SequenceLengths(_)
SequenceLengths(node) ==
    (IF node.kind = "sequence" THEN {<<<<>>, Len(node.content)>>} ELSE {})
    \cup UNION {{<<<<i>> \o e[1], e[2]>> : e \in SequenceLengths(node.content[i])} :
                    i \in 1..Len(node.content)}

\* Segment i of the path is an index beyond the end of the sequence that the
\* segments before it and its key lead to.
OutOfRangeAt(i) ==
    /\ call.path[i].sel = "index"
    /\ \E q \in Find(call.doc, SubSeq(call.path, 1, i - 1)) :
         LET m == GetAt(call.doc, q)
             k == IF m.kind = "mapping" THEN FirstKey(m, call.path[i].key) ELSE 0
         IN  /\ k # 0
             /\ m.content[k].kind = "sequence"
             /\ call.path[i].index >= Len(m.content[k].content)
IndexOutOfRange == \E i \in 1..Len(call.path) : OutOfRangeAt(i)

\* After every set-field each sequence of the document has the length it had.
SequencesKeepLength ==
    \A i \in 1..Len(returned) : SequenceLengths(returned[i].doc) = SequenceLengths(call.doc)

\* C33. A set-field whose path has an index segment that is out of range
\* fails with "no nodes matched path", and sequences are never extended: after
\* any set-field, successful or failed, with either value of the create flag,
\* every sequence of the document has the length it had before.
C33_IndexOutOfRange ==
    /\ SequencesKeepLength
    /\ IndexOutOfRange /\ Len(returned) >= 1
         => returned[1].err = "no nodes matched path" /\ returned[1].doc = call.doc

----------------------------------------------------------------------------
\* C34. For a successful request the pushed commit differs from the cloned
\* tip only at the paths that the commands of the request name: every path a
\* command touched is staged and is in the commit as the working tree has it,
\* and every file that no command names is the same in the pushed commit and
\* in the cloned tip.
C34_CommitFrame ==
    \A r \in Reqs :
        \A i \in PushedBy(r) :
            /\ Status(r) = StatusOK
            /\ staged[r] = TouchedPaths(r, Len(RequestCommands(r)))
            /\ \A p \in FilePaths :
                 remote[i].tree[p] = IF p \in TouchedPaths(r, Len(RequestCommands(r)))
                                       THEN fs[r][p]
                                       ELSE remote[base[r]].tree[p]
            /\ \A k \in 1..Len(RequestCommands(r)) :
                 RequestCommands(r)[k].createFile.set
                 => remote[i].tree[RequestCommands(r)[k].path].kind # "absent"

\* "valid create": the pushed commit holds the new file, and release.yml and
\* the other files as the cloned tip has them.
C34_Witness ==
    \E r \in Reqs :
        /\ RequestCommands(r) = <<Command(PathNew, NoSetField, CreateFile(YamlText(DocFooBar)), FALSE)>>
        /\ pc[r] = "done" /\ Status(r) = StatusOK /\ PushedBy(r) = {2}
        /\ remote[2].tree[PathNew] = YamlText(DocFooBar)
        /\ remote[1].tree[PathNew] = NoFile
        /\ \A p \in FilePaths \ {PathNew} : remote[2].tree[p] = remote[1].tree[p]

----------------------------------------------------------------------------
\* The authorization input that holds what the pipeline of r executes: the
\* repository it clones, the request whose commands it applies, the claims it
\* commits with.
ExecutedInput(r) == [repo |-> req[r].repo, patchRequest |-> req[r].body, authCtx |-> authCtx[r]]

\* C35. The command list that the pipeline executes is the command list that
\* the authorization gate evaluated, in the same order, with the same paths,
\* fields and values, the same repository name and the same caller claims:
\* a pipeline runs only on a request that the gate evaluated and found without
\* violations, it applies the commands of that request, and the request, the
\* repository name and the claims do not change once the request is
\* authenticated.
C35_ExecutesWhatWasAuthorized ==
    /\ [](\A r \in Reqs :
            clones[r] > 0
            => /\ evals[r] = <<"ok">> /\ authz[r] = Allowed
               /\ Violations(ExecutedInput(r)) = {}
               /\ req[r].repo \in ConfigRepositories
               /\ base[r] > 0
                    => fs[r] = TreeAfter(remote[base[r]].tree, ExecutedInput(r).patchRequest.commands,
                                         applied[r]))
    /\ [][\A r \in Reqs :
            pc[r] \notin {"idle", "authenticate"}
            => req'[r] = req[r] /\ authCtx'[r] = authCtx[r]]_vars

\* A request of two commands that the gate allowed and the pipeline executed
\* and pushed.
C35_Witness ==
    \E r \in Reqs :
        /\ Len(RequestCommands(r)) = 2
        /\ RequestCommands(r)[1].path # RequestCommands(r)[2].path
        /\ evals[r] = <<"ok">> /\ authz[r] = Allowed
        /\ pc[r] = "done" /\ Status(r) = StatusOK /\ applied[r] = 2 /\ PushedBy(r) # {}

----------------------------------------------------------------------------
\* The document and the file before call i.
DocBefore(i) == IF i = 1 THEN call.doc ELSE returned[i - 1].doc
FileBefore(i) == IF i = 1 THEN YamlText(call.doc) ELSE outcomes[i - 1].file

\* C36. Whenever a set-field fails (no node matched, the target is no scalar,
\* several nodes matched, the path cannot be created) the document tree is
\* exactly as it was before the call, without partly created keys, and
\* applyPatchCommand does not rewrite the file of the working tree.
C36_FailedSetFieldChangesNothing ==
    /\ \A i \in 1..Len(returned) :
         returned[i].err # "" => returned[i].doc = DocBefore(i)
    /\ Len(returned) >= 1 /\ returned[1].err # "" => patcher.node = call.doc
    /\ \A i \in 1..Len(outcomes) :
         outcomes[i].err.isErr => outcomes[i].file = FileBefore(i)
    /\ Len(outcomes) >= 1 /\ outcomes[1].err.isErr => worktree = YamlText(call.doc)

\* Keys are to be created below "spec: null": the walk fails at the scalar and
\* the document has no new key.
C36_Witness ==
    /\ call.doc = DocSpecNull /\ call.createKeys
    /\ call.path = <<Key("spec"), Key("image"), Key("tag")>>
    /\ Len(returned) >= 1 /\ returned[1].err = "creating path"
    /\ returned[1].doc = DocSpecNull
    /\ Len(outcomes) >= 1 /\ outcomes[1].err.isErr /\ worktree = YamlText(DocSpecNull)

\* The other failures: no match, no scalar, several matches.
C36_WitnessOtherFailures ==
    /\ Len(returned) >= 1
    /\ returned[1].err \in {"no nodes matched path", "expected scalar node",
                            "multiple nodes matched path"}
    /\ call.createKeys

----------------------------------------------------------------------------
\* The last command that request r applied is a set-field.
LastApplied(r) == RequestCommands(r)[applied[r]]
JustSetField(r) == base[r] > 0 /\ applied[r] >= 1 /\ LastApplied(r).setField.set

\* The nodes that the field of that command resolves to in the patched file.
TargetNodes(r) ==
    {GetAt(fs[r][LastApplied(r).path].doc, q) :
        q \in Find(fs[r][LastApplied(r).path].doc, LastApplied(r).setField.field)}

\* C37. After every successful set-field, for every value that the request
\* format accepts, the target node is still a scalar node and holds the
\* encoded value: set-field never turns a scalar into a mapping or a sequence,
\* and the same path resolves to a scalar afterwards.
C37_TargetStaysScalar ==
    \A r \in Reqs :
        JustSetField(r)
        => /\ Cardinality(TargetNodes(r)) = 1
           /\ \A n \in TargetNodes(r) :
                n.kind = "scalar" /\ n.value = LastApplied(r).setField.value.v

----------------------------------------------------------------------------
\* The statuses that the middleware and the handler write.
ResponseStatuses ==
    {StatusOK, StatusBadRequest, StatusUnauthorized, StatusForbidden,
     StatusNotFound, StatusUnprocessableEntity, StatusInternalServerError}

\* A request in progress has no response yet, a finished one has exactly one,
\* with one of the seven statuses.
OneStatus(r) ==
    /\ Len(resp[r]) <= 1
    /\ pc[r] = "done" <=> Len(resp[r]) = 1
    /\ Answered(r) => Status(r) \in ResponseStatuses

\* The pipeline of r has started.
PipelineRuns(r) == clones[r] > 0

\* C38. Every request terminates with exactly one response status out of
\* 200, 400, 401, 403, 404, 422 and 500: given that the calls to the policy
\* engine, to clone and to push return, every accepted request is answered,
\* every pipeline run reaches Pushed or Failed, and the handler writes one
\* status for it, never none and never two.
C38_OneResponse ==
    /\ [](\A r \in Reqs : OneStatus(r))
    /\ \A r \in Reqs : (pc[r] # "idle") ~> (pc[r] = "done" /\ Len(resp[r]) = 1)
    /\ \A r \in Reqs : PipelineRuns(r) ~> (Pushed(r) \/ PipelineFailed(r))

C38_Witness ==
    \E r \in Reqs : Pushed(r) /\ Len(resp[r]) = 1 /\ Status(r) = StatusOK

C38_WitnessFailed ==
    \E r \in Reqs : PipelineFailed(r) /\ Len(resp[r]) = 1
                    /\ Status(r) = StatusUnprocessableEntity

C38_WitnessBeforePipeline ==
    \E r \in Reqs : pc[r] = "done" /\ ~PipelineRuns(r) /\ Len(resp[r]) = 1
                    /\ Status(r) = StatusBadRequest

====
